---------------------------- MODULE Spec2Model ----------------------------
(***************************************************************************)
(* Model of sensor_monitor: the MQTT -> hemrs bridge.                      *)
(*                                                                         *)
(*   main (src/src/main.rs)   bootstrap: setup_sensors, then for each      *)
(*                            configured device setup_device + insert +    *)
(*                            subscribe, then the empty check, then        *)
(*                            handle_connection.                           *)
(*   hem.rs                   the get-or-create resolver (fetch, scan,     *)
(*                            create, re-resolve).                         *)
(*   mqtt.rs                  handle_connection / handle_incomming /       *)
(*                            store_measurement.                           *)
(*                                                                         *)
(* The remote store (hemrs) and the MQTT event stream are the environment: *)
(* every HTTP call and every stream item is one step whose outcome is      *)
(* drawn nondeterministically.  f32 readings are integers in tenths.       *)
(***************************************************************************)
EXTENDS Naturals, Sequences, FiniteSets, TLC

(***************************************************************************)
(* Bounds of the model.                                                    *)
(***************************************************************************)
\* Longest configured device list.
MaxDevices == 2
\* Most records the devices collection holds before bootstrap.
MaxInitDevices == 1
\* Most catalog sensors the sensors collection holds before bootstrap.
MaxInitSensors == 1
\* Most stream items handle_connection is given.
MaxEvents == 2
\* Most times the store fails to reflect a create (a fetch that still hides
\* an accepted record, or a create answered with an error status).
MaxStale == 1
\* Most measurement writes of one run the store answers with an error status.
MaxRejected == 1
\* The identifier the store gives the first record of its devices collection.
FirstDeviceId == 41
\* Most configuration entries beyond the capacity of the request queue.
MaxQueueExcess == 1
\* Most stream items handled after a bootstrap of that many entries.
MaxQueueEvents == 1

(***************************************************************************)
(* Program constants.                                                      *)
(***************************************************************************)
\* hem.rs:103 and hem.rs:167: the placeholder id of a creation payload.
PlaceholderId == 0
\* main.rs:155: capacity of the client's request queue.
RequestQueueCap == 10

\* hem.rs:125-128: the fixed sensor catalog, in resolution order.
Catalog ==
    << [name |-> "DS18B20",           unit |-> "degC"],
       [name |-> "DHT11 Temperature", unit |-> "degC"],
       [name |-> "DHT11 Humidity",    unit |-> "%"],
       [name |-> "DHT11 Dew Point",   unit |-> "degC"] >>

NumSensors == Len(Catalog)

(***************************************************************************)
(* Input universes.                                                        *)
(***************************************************************************)
DeviceKeys  == { <<"esp32_stue", "Stue">>, <<"esp32_stue", "Bad">>,
                 <<"esp32_bad", "Bad">> }
Topics      == {"tele/stue/SENSOR", "tele/bad/SENSOR"}
\* A topic no configuration entry can declare.
ForeignTopic == "tele/other/SENSOR"
\* A topic one character away from a configurable one (a trailing slash).
NearTopic == "tele/stue/SENSOR/"
\* The topics a publish event can carry.
PublishTopics == Topics \cup {ForeignTopic, NearTopic}

\* The empty topic: a topic the configuration accepts (config.rs:297-322)
\* and no valid subscription filter.
EmptyTopic == ""
ValidFilter(topic) == topic # EmptyTopic

\* An entry declaring the empty topic.
EmptyTopicEntry == [name |-> "esp32_stue", location |-> "Stue", topic |-> EmptyTopic]

\* config.rs:46-51 TopicConfig / main.rs:159 cfg.devices: one entry.
ConfigEntries ==
    { [name |-> k[1], location |-> k[2], topic |-> t] :
        k \in DeviceKeys, t \in Topics }
    \cup { EmptyTopicEntry }

RECURSIVE SeqsUpTo(_, _)
SeqsUpTo(S, n) ==
    IF n = 0 THEN { <<>> }
    ELSE LET shorter == SeqsUpTo(S, n - 1)
         IN  shorter \cup { Append(s, x) : s \in shorter, x \in S }

Configs == SeqsUpTo(ConfigEntries, MaxDevices)

(***************************************************************************)
(* The remote store's collections: sequences of records in id order.       *)
(***************************************************************************)
\* Identifier the store assigns to the next record of a collection.
NextId(list, first) ==
    IF list = <<>> THEN first ELSE list[Len(list)].id + 1

\* The sensors collection holding the catalog names of S, last name first.
RECURSIVE SensorList(_, _)
SensorList(S, i) ==
    IF i = 0 THEN <<>>
    ELSE LET rest == SensorList(S, i - 1)
         IN  IF i \in S
             THEN << [id |-> Cardinality({j \in S : j > i}) + 1,
                      name |-> Catalog[i].name, unit |-> Catalog[i].unit] >>
                  \o rest
             ELSE rest

InitSensorLists ==
    { SensorList(S, NumSensors) :
        S \in { T \in SUBSET (1..NumSensors) : Cardinality(T) <= MaxInitSensors } }

RECURSIVE DeviceList(_)
DeviceList(keys) ==
    IF keys = <<>> THEN <<>>
    ELSE LET front == DeviceList(SubSeq(keys, 1, Len(keys) - 1))
             k == keys[Len(keys)]
         IN  Append(front, [id |-> NextId(front, FirstDeviceId),
                            name |-> k[1], location |-> k[2]])

\* Initial devices collections: distinct keys (the store's uniqueness key).
InitDeviceLists ==
    { DeviceList(ks) : ks \in { s \in SeqsUpTo(DeviceKeys, MaxInitDevices) :
                                  \A i, j \in 1..Len(s) : i # j => s[i] # s[j] } }

(***************************************************************************)
(* hem.rs: the scans of setup_sensor and setup_device.                     *)
(* Each returns the index of the first matching record, 0 when none.       *)
(***************************************************************************)
FirstIndex(S) == IF S = {} THEN 0 ELSE CHOOSE i \in S : \A j \in S : i <= j

\* Mutant of FindSensor: the names compared up to their first word
\* (starts_with on the sensor family instead of ==).
FindSensorByFamily(list, sensor_name) ==
    LET Family(name) == IF name = "DS18B20" THEN "DS18B20" ELSE "DHT11"
    IN  FirstIndex({ i \in 1..Len(list) :
                       Family(list[i].name) = Family(sensor_name) })

\* Mutant of FindDevice: the last matching record instead of the first.
FindDeviceLast(list, device_name, device_location) ==
    LET S == { i \in 1..Len(list) :
                 /\ list[i].name = device_name
                 /\ list[i].location = device_location }
    IN  IF S = {} THEN 0 ELSE CHOOSE i \in S : \A j \in S : j <= i

\* Mutant of FindSensor: the unit compared too (the catalog's unit of the
\* name).
FindSensorWithUnit(list, sensor_name) ==
    LET n == CHOOSE k \in 1..NumSensors : Catalog[k].name = sensor_name
    IN  FirstIndex({ i \in 1..Len(list) :
                       /\ list[i].name = sensor_name
                       /\ list[i].unit = Catalog[n].unit })

\* hem.rs:95  sensors.iter().find(|d| d.name == sensor_name)
FindSensor(list, sensor_name) ==
    FirstIndex({ i \in 1..Len(list) : list[i].name = sensor_name })

\* hem.rs:157-159  devices.iter().find(|d| d.name == .. && d.location == ..)
FindDevice(list, device_name, device_location) ==
    FirstIndex({ i \in 1..Len(list) :
                   /\ list[i].name = device_name
                   /\ list[i].location = device_location })

(***************************************************************************)
(* State.                                                                  *)
(***************************************************************************)
VARIABLES
    file,             \* the configuration file parse_topic_configs is given
    config,           \* cfg.devices: the parsed device list
    init,             \* the store's collections before bootstrap
    sensors,          \* store: every accepted sensor record, in id order
    sVisible,         \* store: how many of them a fetch has shown so far
    devices,          \* store: every accepted device record, in id order
    dVisible,         \* store: how many of them a fetch has shown so far
    stale,            \* times the store did not reflect a create
    pc,               \* where main is
    err,              \* the error main returned ("none" while running)
    si,               \* setup_sensors: catalog index being resolved
    di,               \* main's for loop: config index being resolved
    rstep,            \* the resolver's next call: "fetch" (of a new resolution),
                      \* "create", or "refetch" (of the self-call after a create)
    calls,            \* calls of the resolution in progress (or last one)
    sCreates,         \* sensor create requests issued so far
    dCreates,         \* device create requests issued so far
    sensor_ids,       \* ids resolved so far, in SensorIds field order
    devIds,           \* device_id of each loop iteration completed
    topic_to_device,  \* the HashMap built by main
    requests,         \* subscribe requests queued on the client
    events,           \* stream items handle_connection has consumed
    last,             \* the last stream item and what became of it
    lastWrites,       \* the measurement writes attempted for it
    sent,             \* measurement writes attempted in total
    written,          \* measurement writes the store recorded
    rejected          \* measurement writes answered with an error status

storeVars == << sensors, sVisible, devices, dVisible, stale >>
bootVars  == << pc, err, si, di, rstep, calls, sCreates, dCreates,
                sensor_ids, devIds, topic_to_device, requests >>
loopVars  == << events, last, lastWrites, sent, written, rejected >>
vars == << file, config, init, storeVars, bootVars, loopVars >>

EmptyMap == [t \in {} |-> 0]

\* Mutant of MapInsert: an existing key keeps its value
\* (entry(k).or_insert(v)).
MapInsertKeepFirst(m, k, v) ==
    [t \in (DOMAIN m) \cup {k} |-> IF t \in DOMAIN m THEN m[t] ELSE v]

\* main.rs:167  HashMap::insert
MapInsert(m, k, v) ==
    [t \in (DOMAIN m) \cup {k} |-> IF t = k THEN v ELSE m[t]]


(***************************************************************************)
(* The resolver (hem.rs).  A fetch shows a prefix of the accepted records: *)
(* the store reflects a create at once when the next fetch shows every     *)
(* record, and late when it still hides some.                              *)
(***************************************************************************)
Visible(list, k) == SubSeq(list, 1, k)

\* hem.rs:24 / hem.rs:40  #[serde(skip_serializing)] id: the body of a create
\* request carries every field but the id.
SerializeSensor(s) == [name |-> s.name, unit |-> s.unit]
SerializeDevice(d) == [name |-> d.name, location |-> d.location]

\* The store accepting a create: it assigns the identifier itself.
StoreSensor(list, body) ==
    Append(list, [id |-> NextId(list, 1), name |-> body.name, unit |-> body.unit])
StoreDevice(list, body) ==
    Append(list, [id |-> NextId(list, FirstDeviceId),
                  name |-> body.name, location |-> body.location])

\* Mutant of AfterLoop: the empty check left out.
AfterLoopUnchecked(table) ==
    [pc |-> "handle_connection", err |-> "none"]

\* main.rs:172-183: what follows the for loop.
AfterLoop(table) ==
    IF DOMAIN table = {} THEN [pc |-> "exit_err", err |-> "no_devices"]
    ELSE [pc |-> "handle_connection", err |-> "none"]

\* Mutant of BootAbort: the error kept but the resolution not left.
BootAbortContinue ==
    /\ pc' = pc
    /\ err' = "transport"

\* `?` on a failed resolver call: main returns the error.
BootAbort ==
    /\ pc' = "exit_err"
    /\ err' = "transport"

\* main.rs:169 client.subscribe(topic, QoS::AtMostOnce): the ways the call
\* can go with `queued` requests in the client's bounded request channel,
\* which nothing receives from before handle_connection polls the
\* connection. A filter that is no valid filter is refused (Err) by the
\* client libraries that validate it and sent like any other by those that
\* do not: which one the build links is not fixed by the source.
SubscribeOutcomes(topic, queued) ==
    (IF ValidFilter(topic) THEN {} ELSE {"refused"})
    \cup {IF queued >= RequestQueueCap THEN "blocked" ELSE "queued"}

\* The calls of the resolution in progress, this one included.
Called(call) == Append(IF rstep = "fetch" THEN <<>> ELSE calls, call)

\* hem.rs:97-100 and hem.rs:125-135: setup_sensor returns Ok(id).
SensorResolved(id) ==
    /\ sensor_ids' = Append(sensor_ids, id)
    /\ rstep' = "fetch"
    /\ IF si < NumSensors
       THEN /\ si' = si + 1
            /\ UNCHANGED << pc, err, di >>
       ELSE /\ si' = si
            /\ IF Len(config) = 0
               THEN LET after == AfterLoop(topic_to_device)
                    IN  /\ pc' = after.pc
                        /\ err' = after.err
                        /\ di' = di
               ELSE /\ pc' = "setup_devices"
                    /\ err' = err
                    /\ di' = 1

\* Mutant of SetupSensorFetch: a second fetch that still misses gives up
\* and returns the payload's id instead of creating again.
SetupSensorFetchBounded ==
    /\ pc = "setup_sensors"
    /\ rstep \in {"fetch", "refetch"}
    /\ calls' = Called("fetch")
    /\ \/ /\ BootAbort
          /\ UNCHANGED << storeVars, si, di, rstep, sensor_ids >>
       \/ \E k \in sVisible..Len(sensors) :
            /\ k < Len(sensors) => stale < MaxStale
            /\ sVisible' = k
            /\ stale' = IF k < Len(sensors) THEN stale + 1 ELSE stale
            /\ LET list == Visible(sensors, k)
                   i == FindSensor(list, Catalog[si].name)
               IN  IF i # 0
                   THEN SensorResolved(list[i].id)
                   ELSE IF rstep = "refetch"
                   THEN SensorResolved(PlaceholderId)
                   ELSE /\ rstep' = "create"
                        /\ UNCHANGED << pc, err, si, di, sensor_ids >>
            /\ UNCHANGED << sensors, devices, dVisible >>
    /\ UNCHANGED << file, config, init, sCreates, dCreates, devIds,
                    topic_to_device, requests, loopVars >>

\* hem.rs:94-100: fetch_sensors, then the scan.
SetupSensorFetch ==
    /\ pc = "setup_sensors"
    /\ rstep \in {"fetch", "refetch"}
    /\ calls' = Called("fetch")
    /\ \/ /\ BootAbort
          /\ UNCHANGED << storeVars, si, di, rstep, sensor_ids >>
       \/ \E k \in sVisible..Len(sensors) :
            /\ k < Len(sensors) => stale < MaxStale
            /\ sVisible' = k
            /\ stale' = IF k < Len(sensors) THEN stale + 1 ELSE stale
            /\ LET list == Visible(sensors, k)
                   i == FindSensor(list, Catalog[si].name)
               IN  IF i # 0
                   THEN SensorResolved(list[i].id)
                   ELSE /\ rstep' = "create"
                        /\ UNCHANGED << pc, err, si, di, sensor_ids >>
            /\ UNCHANGED << sensors, devices, dVisible >>
    /\ UNCHANGED << file, config, init, sCreates, dCreates, devIds,
                    topic_to_device, requests, loopVars >>

\* hem.rs:101-110: the create request, then the self-call.
SetupSensorCreate ==
    /\ pc = "setup_sensors"
    /\ rstep = "create"
    /\ calls' = Called("create")
    /\ sCreates' = sCreates + 1
    /\ LET new_device == [id |-> PlaceholderId, name |-> Catalog[si].name,
                          unit |-> Catalog[si].unit]
       IN  \/ /\ BootAbort
              /\ UNCHANGED << storeVars, rstep >>
           \/ /\ sensors' = StoreSensor(sensors, SerializeSensor(new_device))
              /\ rstep' = "refetch"
              /\ UNCHANGED << sVisible, devices, dVisible, stale, pc, err >>
           \/ /\ stale < MaxStale
              /\ stale' = stale + 1
              /\ rstep' = "refetch"
              /\ UNCHANGED << sensors, sVisible, devices, dVisible, pc, err >>
    /\ UNCHANGED << file, config, init, si, di, dCreates, sensor_ids, devIds,
                    topic_to_device, requests, loopVars >>

\* Mutant of DeviceResolved: the loop left after its first iteration.
DeviceResolvedOnce(id) ==
    LET dev == config[di]
        table == MapInsert(topic_to_device, dev.topic, id)
    IN  /\ Len(requests) < RequestQueueCap
        /\ devIds' = Append(devIds, id)
        /\ topic_to_device' = table
        /\ requests' = Append(requests, dev.topic)
        /\ rstep' = "fetch"
        /\ di' = di
        /\ pc' = AfterLoop(table).pc
        /\ err' = AfterLoop(table).err

\* Mutant of DeviceResolved: setup_sensors entered again before the next
\* iteration (a sensor catalog per device).
DeviceResolvedReresolving(id) ==
    LET dev == config[di]
        table == MapInsert(topic_to_device, dev.topic, id)
    IN  /\ Len(requests) < RequestQueueCap
        /\ devIds' = Append(devIds, id)
        /\ topic_to_device' = table
        /\ requests' = Append(requests, dev.topic)
        /\ rstep' = "fetch"
        /\ IF di < Len(config)
           THEN /\ di' = di + 1
                /\ pc' = "setup_sensors"
                /\ err' = err
           ELSE /\ di' = di
                /\ pc' = AfterLoop(table).pc
                /\ err' = AfterLoop(table).err

\* Mutant of DeviceResolved: a request queue without capacity limit.
DeviceResolvedUnbounded(id) ==
    LET dev == config[di]
        table == MapInsert(topic_to_device, dev.topic, id)
    IN  /\ devIds' = Append(devIds, id)
        /\ topic_to_device' = table
        /\ requests' = Append(requests, dev.topic)
        /\ rstep' = "fetch"
        /\ IF di < Len(config)
           THEN /\ di' = di + 1
                /\ UNCHANGED << pc, err >>
           ELSE /\ di' = di
                /\ pc' = AfterLoop(table).pc
                /\ err' = AfterLoop(table).err

\* main.rs:166-170: the rest of one loop iteration, then the loop's exit.
\* The routing entry is inserted (167), then client.subscribe is called
\* under `?` (169): refused, main returns the error; on a full request
\* channel the send does not return; otherwise the request is queued.
DeviceResolved(id) ==
    LET dev == config[di]
        table == MapInsert(topic_to_device, dev.topic, id)
    IN  /\ devIds' = Append(devIds, id)
        /\ topic_to_device' = table
        /\ rstep' = "fetch"
        /\ \E outcome \in SubscribeOutcomes(dev.topic, Len(requests)) :
             IF outcome = "refused"
             THEN /\ requests' = requests
                  /\ di' = di
                  /\ pc' = "exit_err"
                  /\ err' = "subscribe"
             ELSE IF outcome = "blocked"
             THEN /\ requests' = requests
                  /\ di' = di
                  /\ pc' = "subscribe_blocked"
                  /\ err' = err
             ELSE /\ requests' = Append(requests, dev.topic)
                  /\ IF di < Len(config)
                     THEN /\ di' = di + 1
                          /\ UNCHANGED << pc, err >>
                     ELSE /\ di' = di
                          /\ pc' = AfterLoop(table).pc
                          /\ err' = AfterLoop(table).err

\* Mutant of SetupDeviceFetch: the first fetch of a resolution not scanned
\* (create first, then look the id up).
SetupDeviceFetchCreateFirst ==
    /\ pc = "setup_devices"
    /\ rstep \in {"fetch", "refetch"}
    /\ calls' = Called("fetch")
    /\ \/ /\ BootAbort
          /\ UNCHANGED << storeVars, di, rstep, devIds, topic_to_device,
                          requests >>
       \/ \E k \in dVisible..Len(devices) :
            /\ k < Len(devices) => stale < MaxStale
            /\ dVisible' = k
            /\ stale' = IF k < Len(devices) THEN stale + 1 ELSE stale
            /\ LET list == Visible(devices, k)
                   i == FindDevice(list, config[di].name, config[di].location)
               IN  IF i # 0 /\ rstep = "refetch"
                   THEN DeviceResolved(list[i].id)
                   ELSE /\ rstep' = "create"
                        /\ UNCHANGED << pc, err, di, devIds, topic_to_device,
                                        requests >>
            /\ UNCHANGED << sensors, sVisible, devices >>
    /\ UNCHANGED << file, config, init, si, sCreates, dCreates, sensor_ids,
                    loopVars >>

\* hem.rs:156-164: fetch_devices, then the scan.
SetupDeviceFetch ==
    /\ pc = "setup_devices"
    /\ rstep \in {"fetch", "refetch"}
    /\ calls' = Called("fetch")
    /\ \/ /\ BootAbort
          /\ UNCHANGED << storeVars, di, rstep, devIds, topic_to_device,
                          requests >>
       \/ \E k \in dVisible..Len(devices) :
            /\ k < Len(devices) => stale < MaxStale
            /\ dVisible' = k
            /\ stale' = IF k < Len(devices) THEN stale + 1 ELSE stale
            /\ LET list == Visible(devices, k)
                   i == FindDevice(list, config[di].name, config[di].location)
               IN  IF i # 0
                   THEN DeviceResolved(list[i].id)
                   ELSE /\ rstep' = "create"
                        /\ UNCHANGED << pc, err, di, devIds, topic_to_device,
                                        requests >>
            /\ UNCHANGED << sensors, sVisible, devices >>
    /\ UNCHANGED << file, config, init, si, sCreates, dCreates, sensor_ids,
                    loopVars >>

\* Mutant of SetupDeviceCreate: the id of the create payload returned
\* instead of the self-call.
SetupDeviceCreateTrusting ==
    /\ pc = "setup_devices"
    /\ rstep = "create"
    /\ calls' = Called("create")
    /\ dCreates' = dCreates + 1
    /\ LET new_device == [id |-> PlaceholderId, name |-> config[di].name,
                          location |-> config[di].location]
       IN  \/ /\ BootAbort
              /\ UNCHANGED << storeVars, rstep, di, devIds, topic_to_device,
                              requests >>
           \/ /\ devices' = StoreDevice(devices, SerializeDevice(new_device))
              /\ DeviceResolved(new_device.id)
              /\ UNCHANGED << sensors, sVisible, dVisible, stale >>
    /\ UNCHANGED << file, config, init, si, sCreates, sensor_ids, loopVars >>

\* Mutant of SetupDeviceCreate: an error status of the create response is
\* an error (error_for_status()?).
SetupDeviceCreateChecked ==
    /\ pc = "setup_devices"
    /\ rstep = "create"
    /\ calls' = Called("create")
    /\ dCreates' = dCreates + 1
    /\ LET new_device == [id |-> PlaceholderId, name |-> config[di].name,
                          location |-> config[di].location]
       IN  \/ /\ BootAbort
              /\ UNCHANGED << storeVars, rstep >>
           \/ /\ devices' = StoreDevice(devices, SerializeDevice(new_device))
              /\ rstep' = "refetch"
              /\ UNCHANGED << sensors, sVisible, dVisible, stale, pc, err >>
           \/ /\ stale < MaxStale
              /\ stale' = stale + 1
              /\ pc' = "exit_err"
              /\ err' = "status"
              /\ UNCHANGED << sensors, sVisible, devices, dVisible, rstep >>
    /\ UNCHANGED << file, config, init, si, di, sCreates, sensor_ids, devIds,
                    topic_to_device, requests, loopVars >>

\* hem.rs:165-174: the create request, then the self-call.
SetupDeviceCreate ==
    /\ pc = "setup_devices"
    /\ rstep = "create"
    /\ calls' = Called("create")
    /\ dCreates' = dCreates + 1
    /\ LET new_device == [id |-> PlaceholderId, name |-> config[di].name,
                          location |-> config[di].location]
       IN  \/ /\ BootAbort
              /\ UNCHANGED << storeVars, rstep >>
           \/ /\ devices' = StoreDevice(devices, SerializeDevice(new_device))
              /\ rstep' = "refetch"
              /\ UNCHANGED << sensors, sVisible, dVisible, stale, pc, err >>
           \/ /\ stale < MaxStale
              /\ stale' = stale + 1
              /\ rstep' = "refetch"
              /\ UNCHANGED << sensors, sVisible, devices, dVisible, pc, err >>
    /\ UNCHANGED << file, config, init, si, di, sCreates, sensor_ids, devIds,
                    topic_to_device, requests, loopVars >>

(***************************************************************************)
(* Payloads (mqtt.rs:14-54).  A payload is described by what the decoders  *)
(* look at:                                                                *)
(*   utf8     the bytes are UTF-8;                                         *)
(*   json     the text is one JSON object or one JSON array;               *)
(*   seq      it is an array, whose first four elements stand for the      *)
(*            members "Time", "DS18B20", "DHT11", "TempUnit" in that order *)
(*            (a member "absent" from an array is an array too short);     *)
(*   repeats  it is an object that names one of those four members twice;  *)
(*   extra    it holds more than the four members: an object, members of   *)
(*            other names (each named once or more often); an array,       *)
(*            elements after the fourth;                                   *)
(*   time, unit   "valid", or "invalid" when missing or of the wrong type; *)
(*   ds, dht      the two sensor members.                                  *)
(***************************************************************************)
\* Readings in tenths (the values of mqtt.rs:268-273).
ProbeTemps == {220}
DhtTriples == { [temperature |-> 230, humidity |-> 450, dew_point |-> 105] }

NoDs  == [temperature |-> 0]
NoDht == [temperature |-> 0, humidity |-> 0, dew_point |-> 0]

\* The "DS18B20" member: absent, null, a value that is no DS18B20 (a member
\* missing or of the wrong type), or a value that decodes as a DS18B20.
DsForms ==
    { [kind |-> k, value |-> NoDs] : k \in {"absent", "null", "invalid"} }
    \cup { [kind |-> "object", value |-> [temperature |-> t]] : t \in ProbeTemps }

DhtForms ==
    { [kind |-> k, value |-> NoDht] : k \in {"absent", "null", "invalid"} }
    \cup { [kind |-> "object", value |-> v] : v \in DhtTriples }

NotUtf8 == [utf8 |-> FALSE, json |-> FALSE, seq |-> FALSE, repeats |-> FALSE,
            extra |-> FALSE, time |-> "invalid",
            ds |-> [kind |-> "absent", value |-> NoDs],
            dht |-> [kind |-> "absent", value |-> NoDht], unit |-> "invalid"]
NotJson == [NotUtf8 EXCEPT !.utf8 = TRUE]

\* JSON objects of no other members than the four, none named twice.
ObjectPayloads ==
    [utf8 : {TRUE}, json : {TRUE}, seq : {FALSE}, repeats : {FALSE},
     extra : {FALSE},
     time : {"invalid", "valid"}, ds : DsForms, dht : DhtForms,
     unit : {"invalid", "valid"}]

\* JSON arrays of at most four elements: the timestamp first, then the two
\* sensor values (or fewer elements), the unit label last.
ArrayPayloads ==
    [utf8 : {TRUE}, json : {TRUE}, seq : {TRUE}, repeats : {FALSE},
     extra : {FALSE},
     time : {"valid"}, ds : DsForms, dht : DhtForms, unit : {"valid"}]

\* JSON objects of well-typed members, one of the four members of
\* SensorEntry that the object holds being named twice.
RepeatingPayloads ==
    [utf8 : {TRUE}, json : {TRUE}, seq : {FALSE}, repeats : {TRUE},
     extra : {FALSE},
     time : {"valid"},
     ds : { f \in DsForms : f.kind \in {"absent", "object"} },
     dht : { f \in DhtForms : f.kind \in {"absent", "object"} },
     unit : {"valid"}]

\* The four members well typed, and more: an object with members of other
\* names, an array with elements after the fourth.
ExtraPayloads ==
    [utf8 : {TRUE}, json : {TRUE}, seq : BOOLEAN, repeats : {FALSE},
     extra : {TRUE},
     time : {"valid"},
     ds : { f \in DsForms : f.kind \in {"null", "object"} },
     dht : { f \in DhtForms : f.kind \in {"null", "object"} },
     unit : {"valid"}]

Payloads ==
    {NotUtf8, NotJson} \cup ObjectPayloads \cup ArrayPayloads
    \cup RepeatingPayloads \cup ExtraPayloads

\* mqtt.rs:162  String::from_utf8(p.payload.to_vec())
from_utf8(payload) == payload.utf8

\* The reading a payload the deserializer accepts decodes to.
Decoded(payload) ==
    [ok |-> TRUE,
     ds18b20 |-> IF payload.ds.kind = "object"
                 THEN [some |-> TRUE, temperature |-> payload.ds.value.temperature]
                 ELSE [some |-> FALSE, temperature |-> 0],
     dht11 |-> IF payload.dht.kind = "object"
               THEN [some |-> TRUE,
                     temperature |-> payload.dht.value.temperature,
                     humidity |-> payload.dht.value.humidity,
                     dew_point |-> payload.dht.value.dew_point]
               ELSE [some |-> FALSE, temperature |-> 0, humidity |-> 0,
                     dew_point |-> 0]]

DecodeError ==
    [ok |-> FALSE,
     ds18b20 |-> [some |-> FALSE, temperature |-> 0],
     dht11 |-> [some |-> FALSE, temperature |-> 0, humidity |-> 0,
                dew_point |-> 0]]

\* The values of an Option member the derived visitor takes: from an object
\* absent (None), null (None) or a value of the member's type; from an array
\* an element must be there (an array too short is an invalid length).
OptionKinds(payload) ==
    IF payload.seq THEN {"null", "object"} ELSE {"absent", "null", "object"}

\* What the visitor meets beyond the four members and refuses: a second
\* occurrence of one of the four names in an object (duplicate field), an
\* element after the fourth in an array (trailing characters). Members of
\* other names are skipped, however often they are named.
Surplus(payload) ==
    \/ payload.repeats
    \/ payload.seq /\ payload.extra

\* Mutant of from_str: the two sensor members required (not Option).
from_str_both_required(payload) ==
    IF /\ payload.json
       /\ ~Surplus(payload)
       /\ payload.time = "valid"
       /\ payload.unit = "valid"
       /\ payload.ds.kind = "object"
       /\ payload.dht.kind = "object"
    THEN Decoded(payload)
    ELSE DecodeError

\* mqtt.rs:168  serde_json::from_str::<SensorEntry> with the derived
\* Deserialize of mqtt.rs:39-54: the visitor takes a JSON object (members
\* by name; one of the four named twice is an error, members of other names
\* are ignored) or a JSON array (members by position, four elements and no
\* more); "Time" and "TempUnit" are required, the two Option members are
\* None when null, or when absent from an object.
from_str(payload) ==
    IF /\ payload.json
       /\ ~Surplus(payload)
       /\ payload.time = "valid"
       /\ payload.unit = "valid"
       /\ payload.ds.kind \in OptionKinds(payload)
       /\ payload.dht.kind \in OptionKinds(payload)
    THEN Decoded(payload)
    ELSE DecodeError

NoReading == DecodeError

(***************************************************************************)
(* mqtt.rs:100-138 store_measurement.                                      *)
(***************************************************************************)
\* hem.rs:8-17 SensorIds, from the ids in resolution order (hem.rs:125-135).
SensorIds(ids) ==
    [ds18b20 |-> ids[1], dht11_temperature |-> ids[2],
     dht11_humidity |-> ids[3], dht11_dew_point |-> ids[4]]

\* mqtt.rs:78-84 Measurement::new
Measurement(device, sensor, measurement) ==
    [device |-> device, sensor |-> sensor, measurement |-> measurement]

\* Mutant of Dht11Writes: humidity and dew point under each other's sensor.
Dht11WritesSwapped(entry, device_id, ids) ==
    IF entry.dht11.some
    THEN << Measurement(device_id, ids.dht11_temperature, entry.dht11.temperature),
            Measurement(device_id, ids.dht11_dew_point, entry.dht11.humidity),
            Measurement(device_id, ids.dht11_humidity, entry.dht11.dew_point) >>
    ELSE <<>>

\* mqtt.rs:107-123: the DHT11 arm.
Dht11Writes(entry, device_id, ids) ==
    IF entry.dht11.some
    THEN << Measurement(device_id, ids.dht11_temperature, entry.dht11.temperature),
            Measurement(device_id, ids.dht11_humidity, entry.dht11.humidity),
            Measurement(device_id, ids.dht11_dew_point, entry.dht11.dew_point) >>
    ELSE <<>>

\* mqtt.rs:125-135: the DS18B20 arm.
Ds18b20Writes(entry, device_id, ids) ==
    IF entry.ds18b20.some
    THEN << Measurement(device_id, ids.ds18b20, entry.ds18b20.temperature) >>
    ELSE <<>>

\* Mutant of MeasurementWrites: the DS18B20 arm before the DHT11 arm.
MeasurementWritesProbeFirst(entry, device_id, ids) ==
    Ds18b20Writes(entry, device_id, ids) \o Dht11Writes(entry, device_id, ids)

\* The writes store_measurement makes when none fails, in order.
MeasurementWrites(entry, device_id, ids) ==
    Dht11Writes(entry, device_id, ids) \o Ds18b20Writes(entry, device_id, ids)

\* Mutant of store_measurement: the error of a failed send kept for the
\* end, the remaining writes attempted all the same.
store_measurement_keep_going(entry, device_id, ids, failAt, rejectedAt) ==
    LET all == MeasurementWrites(entry, device_id, ids)
    IN  [i \in 1..Len(all) |->
           [device |-> all[i].device, sensor |-> all[i].sensor,
            measurement |-> all[i].measurement,
            outcome |-> IF i = failAt THEN "failed"
                        ELSE IF i \in rejectedAt THEN "rejected" ELSE "ok"]]

\* Mutant of store_measurement: an error status ends the writes as a failed
\* send does.
store_measurement_status_checked(entry, device_id, ids, failAt, rejectedAt) ==
    LET all == MeasurementWrites(entry, device_id, ids)
        stops == rejectedAt \cup (IF failAt = 0 THEN {} ELSE {failAt})
        n == IF stops = {} THEN Len(all)
             ELSE CHOOSE i \in stops : \A j \in stops : i <= j
    IN  [i \in 1..n |->
           [device |-> all[i].device, sensor |-> all[i].sensor,
            measurement |-> all[i].measurement,
            outcome |-> IF i = failAt THEN "failed"
                        ELSE IF i \in rejectedAt THEN "rejected" ELSE "ok"]]

\* The writes attempted when the failAt-th send fails (0: none does), each
\* with its outcome: "ok", "rejected" (an error status: send() is Ok all the
\* same) or "failed" (send() is Err and `?` returns it).
store_measurement(entry, device_id, ids, failAt, rejectedAt) ==
    LET all == MeasurementWrites(entry, device_id, ids)
        n == IF failAt = 0 THEN Len(all) ELSE failAt
    IN  [i \in 1..n |->
           [device |-> all[i].device, sensor |-> all[i].sensor,
            measurement |-> all[i].measurement,
            outcome |-> IF i = failAt THEN "failed"
                        ELSE IF i \in rejectedAt THEN "rejected" ELSE "ok"]]

CountOutcome(writes, o) ==
    Cardinality({ i \in 1..Len(writes) : writes[i].outcome = o })

(***************************************************************************)
(* mqtt.rs:153-188 handle_incomming on a Publish packet.                   *)
(* The result is "ok" or the error returned, with the writes attempted.    *)
(***************************************************************************)
\* Mutant of handle_incomming: the JSON decode moved before the lookup.
handle_incomming_decode_first(topic, payload, table, ids, failAt, rejectedAt) ==
    IF ~from_utf8(payload)
    THEN [result |-> "utf8", entry |-> NoReading, writes |-> <<>>]
    ELSE LET sensor == from_str(payload)
         IN  IF ~sensor.ok
             THEN [result |-> "json", entry |-> NoReading, writes |-> <<>>]
             ELSE IF topic \notin DOMAIN table
             THEN [result |-> "unrouted", entry |-> NoReading, writes |-> <<>>]
             ELSE LET writes == store_measurement(sensor, table[topic], ids,
                                                  failAt, rejectedAt)
                  IN  [result |-> IF failAt = 0 THEN "ok" ELSE "write",
                       entry |-> sensor, writes |-> writes]

\* Mutant of handle_incomming: the topic looked up without its trailing
\* slash.
handle_incomming_trimmed(topic, payload, table, ids, failAt, rejectedAt) ==
    LET key == IF topic = NearTopic THEN "tele/stue/SENSOR" ELSE topic
    IN  IF ~from_utf8(payload)
        THEN [result |-> "utf8", entry |-> NoReading, writes |-> <<>>]
        ELSE IF key \notin DOMAIN table
        THEN [result |-> "unrouted", entry |-> NoReading, writes |-> <<>>]
        ELSE LET sensor == from_str(payload)
             IN  IF ~sensor.ok
                 THEN [result |-> "json", entry |-> NoReading, writes |-> <<>>]
                 ELSE LET writes == store_measurement(sensor, table[key], ids,
                                                      failAt, rejectedAt)
                      IN  [result |-> IF failAt = 0 THEN "ok" ELSE "write",
                           entry |-> sensor, writes |-> writes]

handle_incomming(topic, payload, table, ids, failAt, rejectedAt) ==
    IF ~from_utf8(payload)
    THEN [result |-> "utf8", entry |-> NoReading, writes |-> <<>>]
    ELSE IF topic \notin DOMAIN table
    THEN [result |-> "unrouted", entry |-> NoReading, writes |-> <<>>]
    ELSE LET sensor == from_str(payload)
         IN  IF ~sensor.ok
             THEN [result |-> "json", entry |-> NoReading, writes |-> <<>>]
             ELSE LET writes == store_measurement(sensor, table[topic], ids,
                                                  failAt, rejectedAt)
                  IN  [result |-> IF failAt = 0 THEN "ok" ELSE "write",
                       entry |-> sensor, writes |-> writes]

\* How many writes the handler would make for this packet if none failed.
WritesDue(topic, payload, table, ids) ==
    Len(handle_incomming(topic, payload, table, ids, 0, {}).writes)

(***************************************************************************)
(* mqtt.rs:203-226 handle_connection: one step per stream item.            *)
(***************************************************************************)
\* Mutant of LoopResult: the error logged and the loop continued.
LoopResultIsolating(result) ==
    [pc |-> "handle_connection", err |-> "none"]

\* mqtt.rs:214: `?` on handle_incomming's result.
LoopResult(result) ==
    IF result = "ok" THEN [pc |-> "handle_connection", err |-> "none"]
    ELSE [pc |-> "exit_err", err |-> result]

\* Event::Incoming(Packet::Publish(p))
IncomingPublish(limit) ==
    /\ pc = "handle_connection"
    /\ events < limit
    /\ \E topic \in PublishTopics, payload \in Payloads :
         LET ids == SensorIds(sensor_ids)
             due == WritesDue(topic, payload, topic_to_device, ids)
         IN  \E failAt \in 0..due :
               \E rejectedAt \in SUBSET (1..(IF failAt = 0 THEN due ELSE failAt - 1)) :
                 /\ rejected + Cardinality(rejectedAt) <= MaxRejected
                 /\ LET r == handle_incomming(topic, payload, topic_to_device,
                                              ids, failAt, rejectedAt)
                    IN  /\ last' = [kind |-> "publish", topic |-> topic,
                                    payload |-> payload, result |-> r.result,
                                    entry |-> r.entry]
                        /\ lastWrites' = r.writes
                        /\ sent' = sent + Len(r.writes)
                        /\ written' = written + CountOutcome(r.writes, "ok")
                        /\ rejected' = rejected + CountOutcome(r.writes, "rejected")
                        /\ pc' = LoopResult(r.result).pc
                        /\ err' = LoopResult(r.result).err
    /\ events' = events + 1
    /\ UNCHANGED << file, config, init, storeVars, si, di, rstep, calls, sCreates,
                    dCreates, sensor_ids, devIds, topic_to_device, requests >>

\* A stream item that is logged only.
Logged(kind, limit) ==
    /\ pc = "handle_connection"
    /\ events < limit
    /\ events' = events + 1
    /\ last' = [kind |-> kind, topic |-> "", payload |-> NotUtf8,
                result |-> "ok", entry |-> NoReading]
    /\ lastWrites' = <<>>
    /\ UNCHANGED << file, config, init, storeVars, bootVars, sent, written, rejected >>

\* Mutant of IncomingOther: a packet that is no Publish is an error.
IncomingOtherFatal(limit) ==
    /\ pc = "handle_connection"
    /\ events < limit
    /\ events' = events + 1
    /\ last' = [kind |-> "incoming", topic |-> "", payload |-> NotUtf8,
                result |-> "packet", entry |-> NoReading]
    /\ lastWrites' = <<>>
    /\ pc' = "exit_err"
    /\ err' = "packet"
    /\ UNCHANGED << file, config, init, storeVars, si, di, rstep, calls, sCreates,
                    dCreates, sensor_ids, devIds, topic_to_device, requests,
                    sent, written, rejected >>

\* mqtt.rs:184-187: Event::Incoming of any other packet.
IncomingOther(limit) == Logged("incoming", limit)

\* mqtt.rs:216-218: Event::Outgoing.
Outgoing(limit) == Logged("outgoing", limit)

\* Mutant of ConnectionError: the routing table dropped on a connection
\* error.
ConnectionErrorForgetting(limit) ==
    /\ pc = "handle_connection"
    /\ events < limit
    /\ events' = events + 1
    /\ last' = [kind |-> "conn_err", topic |-> "", payload |-> NotUtf8,
                result |-> "ok", entry |-> NoReading]
    /\ lastWrites' = <<>>
    /\ topic_to_device' = EmptyMap
    /\ UNCHANGED << file, config, init, storeVars, pc, err, si, di, rstep, calls,
                    sCreates, dCreates, sensor_ids, devIds, requests,
                    sent, written, rejected >>

\* Mutant of ConnectionError: the connection error returned to the caller.
ConnectionErrorFatal(limit) ==
    /\ pc = "handle_connection"
    /\ events < limit
    /\ events' = events + 1
    /\ last' = [kind |-> "conn_err", topic |-> "", payload |-> NotUtf8,
                result |-> "connection", entry |-> NoReading]
    /\ lastWrites' = <<>>
    /\ pc' = "exit_err"
    /\ err' = "connection"
    /\ UNCHANGED << file, config, init, storeVars, si, di, rstep, calls, sCreates,
                    dCreates, sensor_ids, devIds, topic_to_device, requests,
                    sent, written, rejected >>

\* mqtt.rs:220-222: Err(e) from the connection.
ConnectionError(limit) == Logged("conn_err", limit)

\* mqtt.rs:225 and main.rs:183: the iterator ends, Ok(()) all the way up.
StreamEnd ==
    /\ pc = "handle_connection"
    /\ pc' = "exit_ok"
    /\ UNCHANGED << file, config, init, storeVars, err, si, di, rstep, calls,
                    sCreates, dCreates, sensor_ids, devIds, topic_to_device,
                    requests, loopVars >>

\* A file that cannot be read (and the file of the runs that start from a
\* parsed device list).
NoTopics == << >>
NoFile == [readable |-> FALSE, toml |-> FALSE, has_topics |-> FALSE, topics |-> NoTopics]

\* Mutant of Start: the empty check made before the sensors are resolved.
StartCheckedFirst(configs, sensorLists, deviceLists) ==
    /\ file = NoFile
    /\ config \in configs
    /\ sensors \in sensorLists
    /\ devices \in deviceLists
    /\ init = [sensors |-> sensors, devices |-> devices]
    /\ sVisible = Len(sensors)
    /\ dVisible = Len(devices)
    /\ stale = 0
    /\ pc = IF config = <<>> THEN "exit_err" ELSE "setup_sensors"
    /\ err = IF config = <<>> THEN "no_devices" ELSE "none"
    /\ si = 1
    /\ di = 0
    /\ rstep = "fetch"
    /\ calls = <<>>
    /\ sCreates = 0
    /\ dCreates = 0
    /\ sensor_ids = <<>>
    /\ devIds = <<>>
    /\ topic_to_device = EmptyMap
    /\ requests = <<>>
    /\ events = 0
    /\ last = [kind |-> "none", topic |-> "", payload |-> NotUtf8,
               result |-> "none", entry |-> NoReading]
    /\ lastWrites = <<>>
    /\ sent = 0
    /\ written = 0
    /\ rejected = 0

\* The states main starts from, for the given configurations and the given
\* initial collections of the store.
Start(configs, sensorLists, deviceLists) ==
    /\ file = NoFile
    /\ config \in configs
    /\ sensors \in sensorLists
    /\ devices \in deviceLists
    /\ init = [sensors |-> sensors, devices |-> devices]
    /\ sVisible = Len(sensors)
    /\ dVisible = Len(devices)
    /\ stale = 0
    /\ pc = "setup_sensors"
    /\ err = "none"
    /\ si = 1
    /\ di = 0
    /\ rstep = "fetch"
    /\ calls = <<>>
    /\ sCreates = 0
    /\ dCreates = 0
    /\ sensor_ids = <<>>
    /\ devIds = <<>>
    /\ topic_to_device = EmptyMap
    /\ requests = <<>>
    /\ events = 0
    /\ last = [kind |-> "none", topic |-> "", payload |-> NotUtf8,
               result |-> "none", entry |-> NoReading]
    /\ lastWrites = <<>>
    /\ sent = 0
    /\ written = 0
    /\ rejected = 0


Boot ==
    \/ SetupSensorFetch
    \/ SetupSensorCreate
    \/ SetupDeviceFetch
    \/ SetupDeviceCreate

handle_connection(limit) ==
    \/ IncomingPublish(limit)
    \/ IncomingOther(limit)
    \/ Outgoing(limit)
    \/ ConnectionError(limit)
    \/ StreamEnd

(***************************************************************************)
(* Specifications.                                                         *)
(*   Spec      the whole program (bootstrap, then the dispatch loop over   *)
(*             at most MaxEvents stream items) for the configurations of   *)
(*             SpecConfigs on the stores of SpecSensorLists, no devices.   *)
(*   BootSpec  the bootstrap alone, for every configuration of at most     *)
(*             MaxDevices entries and every initial devices collection.    *)
(***************************************************************************)
Entry1 == [name |-> "esp32_stue", location |-> "Stue", topic |-> "tele/stue/SENSOR"]
Entry2 == [name |-> "esp32_bad", location |-> "Bad", topic |-> "tele/bad/SENSOR"]
Entry3 == [name |-> "esp32_bad", location |-> "Bad", topic |-> "tele/stue/SENSOR"]

\* No device, one device, two devices, two devices declaring one topic,
\* one device declaring the empty topic.
SpecConfigs ==
    { <<>>, <<Entry1>>, <<Entry1, Entry2>>, <<Entry1, Entry3>>,
      <<EmptyTopicEntry>> }

\* No sensor yet, or "DHT11 Humidity" alone (so that the ids the store
\* assigns are not in catalog order).
SpecSensorLists == { SensorList({}, NumSensors), SensorList({3}, NumSensors) }

Init == Start(SpecConfigs, SpecSensorLists, { <<>> })

Next == Boot \/ handle_connection(MaxEvents)

Spec == Init /\ [][Next]_vars

BootInit == Start(Configs, InitSensorLists, InitDeviceLists)

BootSpec == BootInit /\ [][Boot]_vars

\* Configurations of about as many entries as the request queue holds:
\* one entry short of the capacity up to MaxQueueExcess entries beyond it.
LongConfig(n) == [i \in 1..n |-> IF i % 2 = 1 THEN Entry1 ELSE Entry2]

QueueConfigs ==
    { LongConfig(n) : n \in (RequestQueueCap - 1)..(RequestQueueCap + MaxQueueExcess) }

\* The whole program for the configurations of QueueConfigs.
QueueInit == Start(QueueConfigs, SpecSensorLists, { <<>> })

QueueNext ==
    \/ Boot
    \/ handle_connection(MaxQueueEvents)

QueueSpec == QueueInit /\ [][QueueNext]_vars

\* A unit no catalog entry has.
OtherUnit == "degF"

\* The same sensor records under another unit.
Reunit(list, unit) == [i \in DOMAIN list |-> [list[i] EXCEPT !.unit = unit]]

MatchSensorLists ==
    InitSensorLists \cup { Reunit(list, OtherUnit) : list \in InitSensorLists }

\* The bootstrap for one configured device at most, on stores that hold a
\* catalog sensor under another unit, or a device of the same name at
\* another location.
MatchInit == Start(SeqsUpTo(ConfigEntries, 1), MatchSensorLists, InitDeviceLists)

MatchSpec == MatchInit /\ [][Boot]_vars

\* The bootstrap under the scheduling of a sequential program whose every
\* HTTP call returns (with a response or with an error): a call that can
\* be made is made.
FairBootSpec == BootSpec /\ WF_vars(Boot)

(***************************************************************************)
(* config.rs:86-99 parse_topic_configs, a pure function of the file: the   *)
(* file is read, parsed as TOML and deserialized into Vec<TopicConfig>.    *)
(* A file is described by whether it can be read, whether its text is      *)
(* TOML, and its `topics` array (absent, or a list of tables); a member of *)
(* a table is missing, a string (possibly empty) or a value of another     *)
(* type.                                                                   *)
(***************************************************************************)
RawFields ==
    { [kind |-> "missing", text |-> ""],
      [kind |-> "integer", text |-> ""],
      [kind |-> "string",  text |-> ""],
      [kind |-> "string",  text |-> "x"] }

RawEntries ==
    [topic : RawFields, device_name : RawFields, device_location : RawFields]

RawFiles ==
    { NoFile,
      [readable |-> TRUE,  toml |-> FALSE, has_topics |-> FALSE, topics |-> NoTopics],
      [readable |-> TRUE,  toml |-> TRUE,  has_topics |-> FALSE, topics |-> NoTopics] }
    \cup { [readable |-> TRUE, toml |-> TRUE, has_topics |-> TRUE, topics |-> t] :
             t \in SeqsUpTo(RawEntries, MaxDevices) }

\* config.rs:46-51: #[derive(Deserialize)] TopicConfig, three String
\* members without default: each must be present and a string.
DeserializesTopicConfig(e) ==
    /\ e.topic.kind = "string"
    /\ e.device_name.kind = "string"
    /\ e.device_location.kind = "string"

TopicConfig(e) ==
    [topic |-> e.topic.text, device_name |-> e.device_name.text,
     device_location |-> e.device_location.text]

\* Mutant of parse_topic_configs: a missing member defaults to the empty
\* string (#[serde(default)] on the members).
parse_topic_configs_defaulting(content) ==
    IF ~content.readable THEN [ok |-> FALSE, error |-> "read", topics |-> <<>>]
    ELSE IF \/ ~content.toml
            \/ ~content.has_topics
            \/ \E i \in 1..Len(content.topics) :
                 \E f \in {"topic", "device_name", "device_location"} :
                   content.topics[i][f].kind = "integer"
    THEN [ok |-> FALSE, error |-> "toml", topics |-> <<>>]
    ELSE [ok |-> TRUE, error |-> "none",
          topics |-> [i \in 1..Len(content.topics) |-> TopicConfig(content.topics[i])]]

\* config.rs:86-99
parse_topic_configs(content) ==
    IF ~content.readable THEN [ok |-> FALSE, error |-> "read", topics |-> <<>>]
    ELSE IF \/ ~content.toml
            \/ ~content.has_topics
            \/ \E i \in 1..Len(content.topics) : ~DeserializesTopicConfig(content.topics[i])
    THEN [ok |-> FALSE, error |-> "toml", topics |-> <<>>]
    ELSE [ok |-> TRUE, error |-> "none",
          topics |-> [i \in 1..Len(content.topics) |-> TopicConfig(content.topics[i])]]

\* One call of parse_topic_configs: `config` receives the Vec<TopicConfig>
\* returned.
ParseTopicConfigs ==
    /\ pc = "parse_topic_configs"
    /\ LET r == parse_topic_configs(file)
       IN  /\ config' = r.topics
           /\ pc' = IF r.ok THEN "parsed" ELSE "parse_err"
           /\ err' = r.error
    /\ UNCHANGED << file, init, storeVars, si, di, rstep, calls, sCreates, dCreates,
                    sensor_ids, devIds, topic_to_device, requests, loopVars >>

ParseInit ==
    /\ file \in RawFiles
    /\ config = <<>>
    /\ pc = "parse_topic_configs"
    /\ err = "none"
    /\ sensors = <<>>
    /\ devices = <<>>
    /\ init = [sensors |-> sensors, devices |-> devices]
    /\ sVisible = 0
    /\ dVisible = 0
    /\ stale = 0
    /\ si = 1
    /\ di = 0
    /\ rstep = "fetch"
    /\ calls = <<>>
    /\ sCreates = 0
    /\ dCreates = 0
    /\ sensor_ids = <<>>
    /\ devIds = <<>>
    /\ topic_to_device = EmptyMap
    /\ requests = <<>>
    /\ events = 0
    /\ last = [kind |-> "none", topic |-> "", payload |-> NotUtf8,
               result |-> "none", entry |-> NoReading]
    /\ lastWrites = <<>>
    /\ sent = 0
    /\ written = 0
    /\ rejected = 0

\* parse_topic_configs applied to every file of RawFiles.
ParseSpec == ParseInit /\ [][ParseTopicConfigs]_vars

(***************************************************************************)
(* Vocabulary of the properties.                                           *)
(***************************************************************************)
Routed(topic) == topic \in DOMAIN topic_to_device

\* The payload is UTF-8 text holding a JSON object of the expected shape
\* (with or without members of other names).
WellFormed(payload) ==
    /\ payload.utf8
    /\ payload.json
    /\ ~payload.seq
    /\ ~payload.repeats
    /\ payload.time = "valid"
    /\ payload.unit = "valid"
    /\ payload.ds.kind \in {"absent", "null", "object"}
    /\ payload.dht.kind \in {"absent", "null", "object"}

\* The payloads the decoders take: a well-formed object, or an array of
\* just the four members in declaration order (each sensor value null or a
\* reading).
Decodable(payload) ==
    \/ WellFormed(payload)
    \/ /\ payload.utf8
       /\ payload.json
       /\ payload.seq
       /\ ~payload.extra
       /\ payload.time = "valid"
       /\ payload.unit = "valid"
       /\ payload.ds.kind \in {"null", "object"}
       /\ payload.dht.kind \in {"null", "object"}

HasProbe(payload) == payload.ds.kind = "object"
HasCombined(payload) == payload.dht.kind = "object"

Published == last.kind = "publish"

\* The (device, sensor, value) triples of the writes of the last stream item.
LastTriples ==
    { << lastWrites[i].device, lastWrites[i].sensor, lastWrites[i].measurement >> :
        i \in 1..Len(lastWrites) }

AllWritesOk == \A i \in 1..Len(lastWrites) : lastWrites[i].outcome = "ok"

BootDone == pc \in {"handle_connection", "exit_ok"} \/ events > 0

(***************************************************************************)
(* C1  Per-message failure isolation: a publish event that fails (bad      *)
(* payload, unrouted topic, failed write) does not end the dispatch loop.  *)
(* The code returns the error through `?` (mqtt.rs:214, main.rs:182), so   *)
(* this is violated.                                                       *)
(***************************************************************************)
C1_FailureIsolated ==
    (Published /\ last.result # "ok") => pc # "exit_err"

(***************************************************************************)
(* C4  A reading with both sub-readings on a routed topic, every write     *)
(* succeeding, makes exactly the four writes (d,p,probeTemp),              *)
(* (d,t,combinedTemp), (d,h,combinedHumidity), (d,w,combinedDewPoint).     *)
(***************************************************************************)
C4_FullReadingFourWrites ==
    ( /\ Published
      /\ Routed(last.topic)
      /\ WellFormed(last.payload)
      /\ HasProbe(last.payload)
      /\ HasCombined(last.payload)
      /\ last.result # "write"
      /\ AllWritesOk )
    => LET d == topic_to_device[last.topic]
           v == last.payload
       IN  /\ last.result = "ok"
           /\ Len(lastWrites) = 4
           /\ LastTriples =
                { << d, sensor_ids[1], v.ds.value.temperature >>,
                  << d, sensor_ids[2], v.dht.value.temperature >>,
                  << d, sensor_ids[3], v.dht.value.humidity >>,
                  << d, sensor_ids[4], v.dht.value.dew_point >> }

C4_Witness ==
    /\ Published
    /\ Routed(last.topic)
    /\ HasProbe(last.payload)
    /\ HasCombined(last.payload)
    /\ last.result = "ok"
    /\ AllWritesOk
    /\ Len(lastWrites) = 4
    /\ sensor_ids # << 1, 2, 3, 4 >>

(***************************************************************************)
(* C5  As claimed: every publish event on a topic without a routing entry  *)
(* fails with the unrouted-topic error and makes no write.                 *)
(***************************************************************************)
C5_UnroutedAlways ==
    (Published /\ ~Routed(last.topic))
    => (last.result = "unrouted" /\ lastWrites = <<>>)

(***************************************************************************)
(* C5  As amended: a publish event on a topic without a routing entry      *)
(* makes no write and ends the loop; its error is the unrouted-topic error *)
(* when the payload is valid UTF-8 (whatever the text holds), and the      *)
(* UTF-8 error of mqtt.rs:162 otherwise.                                   *)
(***************************************************************************)
C5_UnroutedUtf8 ==
    (Published /\ ~Routed(last.topic))
    => /\ lastWrites = <<>>
       /\ pc = "exit_err"
       /\ err = last.result
       /\ last.result = IF last.payload.utf8 THEN "unrouted" ELSE "utf8"

C5_Witness ==
    /\ Published
    /\ ~Routed(last.topic)
    /\ WellFormed(last.payload)
    /\ HasProbe(last.payload)
    /\ last.result = "unrouted"
    /\ err = "unrouted"
    /\ sent = 0

(***************************************************************************)
(* C6  A publish event on a routed topic whose payload is not UTF-8 or not *)
(* JSON of the expected shape (a JSON object with the timestamp, the       *)
(* optional probe and combined objects and the unit label) yields a        *)
(* malformed-payload error (the UTF-8 or the JSON error) and makes no      *)
(* write.  The derived deserializer (mqtt.rs:39-54, called at mqtt.rs:168) *)
(* also takes a JSON array of the four members, so this is violated.       *)
(***************************************************************************)
C6_MalformedNoWrites ==
    (Published /\ Routed(last.topic) /\ ~WellFormed(last.payload))
    => /\ last.result \in {"utf8", "json"}
       /\ last.result = "utf8" <=> ~last.payload.utf8
       /\ err = last.result
       /\ pc = "exit_err"
       /\ lastWrites = <<>>

(***************************************************************************)
(* C8  Partially populated payloads are legal.  A well-formed payload with *)
(* only the probe object decodes to probe present / combined absent and    *)
(* forwards one write; with only the combined object, the symmetric        *)
(* reading and three writes; with neither, no decode error, no write, and  *)
(* the message is handled successfully.                                    *)
(***************************************************************************)
C8_PartialPayloads ==
    (Published /\ WellFormed(last.payload))
    => LET v == last.payload
           forwarded == last.result = "ok" /\ AllWritesOk
       IN  /\ last.result # "json"
           /\ Routed(last.topic) =>
                /\ last.result \in {"ok", "write"}
                /\ (HasProbe(v) /\ ~HasCombined(v)) =>
                     /\ last.entry.ds18b20.some
                     /\ ~last.entry.dht11.some
                     /\ forwarded => Len(lastWrites) = 1
                /\ (~HasProbe(v) /\ HasCombined(v)) =>
                     /\ ~last.entry.ds18b20.some
                     /\ last.entry.dht11.some
                     /\ forwarded => Len(lastWrites) = 3
                /\ (~HasProbe(v) /\ ~HasCombined(v)) =>
                     /\ ~last.entry.ds18b20.some
                     /\ ~last.entry.dht11.some
                     /\ last.result = "ok"
                     /\ pc # "exit_err"
                     /\ lastWrites = <<>>

C8_Witness ==
    /\ Published
    /\ Routed(last.topic)
    /\ WellFormed(last.payload)
    /\ HasProbe(last.payload)
    /\ last.payload.dht.kind = "absent"
    /\ last.result = "ok"
    /\ Len(lastWrites) = 1
    /\ written = 1

(***************************************************************************)
(* Vocabulary of the bootstrap properties.                                 *)
(***************************************************************************)
BootOk == pc = "handle_connection"

\* The identifiers the collection holds for the entry's (name, location).
HeldIds(list, entry) ==
    { list[i].id : i \in { j \in 1..Len(list) :
                             /\ list[j].name = entry.name
                             /\ list[j].location = entry.location } }

\* The identifiers the collection holds for a sensor name.
HeldSensorIds(list, name) ==
    { list[i].id : i \in { j \in 1..Len(list) : list[j].name = name } }

\* The oldest of them (ids grow with the records).
Oldest(ids) == CHOOSE x \in ids : \A y \in ids : x <= y

\* The last configuration entry declaring the topic.
LastDeclaring(topic) ==
    CHOOSE i \in 1..Len(config) :
        /\ config[i].topic = topic
        /\ \A j \in 1..Len(config) : config[j].topic = topic => j <= i

(***************************************************************************)
(* C2  As claimed: after a successful bootstrap every configuration entry  *)
(* has a routing entry keyed by its topic whose device id is the one the   *)
(* store holds for the entry's (name, location).                           *)
(***************************************************************************)
C2_EveryEntryRouted ==
    BootOk =>
      \A i \in 1..Len(config) :
        /\ Routed(config[i].topic)
        /\ topic_to_device[config[i].topic] \in HeldIds(devices, config[i])

(***************************************************************************)
(* C2  As amended: after a successful bootstrap every configuration entry  *)
(* has a routing entry keyed by its topic, and the device id stored there  *)
(* is the one the store holds for the (name, location) of the last entry   *)
(* declaring that topic (the store holds exactly one when it reflected     *)
(* every create at once).                                                  *)
(***************************************************************************)
C2_LastEntryRouted ==
    BootOk =>
      \A i \in 1..Len(config) :
        LET topic == config[i].topic
            held == HeldIds(devices, config[LastDeclaring(topic)])
        IN  /\ Routed(topic)
            /\ topic_to_device[topic] \in held
            /\ topic_to_device[topic] = Oldest(held)
            /\ stale = 0 => Cardinality(held) = 1

C2_Witness ==
    /\ BootOk
    /\ Len(config) = 2
    /\ config[1].topic = config[2].topic
    /\ config[1].name # config[2].name
    /\ topic_to_device[config[2].topic] \in HeldIds(devices, config[2])
    /\ topic_to_device[config[1].topic] \notin HeldIds(devices, config[1])

(***************************************************************************)
(* C3  Idempotent lookup: a resolution that starts with a matching record  *)
(* in the store returns that record's id after the one fetch, issues no    *)
(* create and leaves the collection unchanged; resolving the same key      *)
(* again returns the same id.                                              *)
(***************************************************************************)
C3_SameId ==
    \A i, j \in 1..Len(devIds) :
        (config[i].name = config[j].name /\ config[i].location = config[j].location)
        => devIds[i] = devIds[j]

C3_DeviceHit ==
    ( /\ pc = "setup_devices"
      /\ rstep = "fetch"
      /\ HeldIds(Visible(devices, dVisible), config[di]) # {}
      /\ err' # "transport" )
    => /\ devIds' = Append(devIds, Oldest(HeldIds(Visible(devices, dVisible), config[di])))
       /\ devices' = devices
       /\ dCreates' = dCreates
       /\ calls' = << "fetch" >>

C3_SensorHit ==
    ( /\ pc = "setup_sensors"
      /\ rstep = "fetch"
      /\ HeldSensorIds(Visible(sensors, sVisible), Catalog[si].name) # {}
      /\ err' # "transport" )
    => /\ sensor_ids' = Append(sensor_ids,
              Oldest(HeldSensorIds(Visible(sensors, sVisible), Catalog[si].name)))
       /\ sensors' = sensors
       /\ sCreates' = sCreates
       /\ calls' = << "fetch" >>

C3_IdempotentLookup ==
    /\ []C3_SameId
    /\ [][C3_DeviceHit /\ C3_SensorHit]_vars

C3_Witness ==
    /\ BootOk
    /\ Len(config) = 2
    /\ config[1].name = config[2].name
    /\ config[1].location = config[2].location
    /\ HeldIds(init.devices, config[1]) # {}
    /\ devIds[1] = devIds[2]
    /\ devIds[1] \in HeldIds(init.devices, config[1])
    /\ dCreates = 0
    /\ devices = init.devices
    /\ Len(init.sensors) = 1
    /\ sensor_ids[3] = 1

(***************************************************************************)
(* C7  End to end: one configuration entry, a store without devices that   *)
(* reflects every create in the next fetch.  A successful bootstrap issues *)
(* exactly one device-create and one sensor-create per catalog name the    *)
(* store did not hold (four on a store without sensors), and the routing   *)
(* table ends with exactly one entry, keyed by the configured topic.       *)
(***************************************************************************)
C7_EndToEnd ==
    ( /\ BootOk
      /\ Len(config) = 1
      /\ init.devices = <<>>
      /\ stale = 0 )
    => /\ dCreates = 1
       /\ sCreates = NumSensors - Len(init.sensors)
       /\ init.sensors = <<>> => sCreates = 4
       /\ Len(sensors) = Len(init.sensors) + sCreates
       /\ { sensors[k].name : k \in (Len(init.sensors) + 1)..Len(sensors) }
            = { Catalog[n].name : n \in 1..NumSensors }
              \ { init.sensors[k].name : k \in 1..Len(init.sensors) }
       /\ DOMAIN topic_to_device = { config[1].topic }
       /\ Len(devices) = 1

C7_Witness ==
    /\ BootOk
    /\ Len(config) = 1
    /\ init.devices = <<>>
    /\ init.sensors = <<>>
    /\ stale = 0
    /\ dCreates = 1
    /\ sCreates = 4
    /\ sensor_ids = << 1, 2, 3, 4 >>
    /\ DOMAIN topic_to_device = { "tele/stue/SENSOR" }

(***************************************************************************)
(* C9  No stream item is dispatched before bootstrap is complete: the loop *)
(* runs only with all four sensors and every configured device resolved    *)
(* (and every topic subscribed); a failed bootstrap ends the process with  *)
(* its error, no item dispatched and no measurement write issued.          *)
(***************************************************************************)
C9_BootBeforeDispatch ==
    /\ (BootDone \/ last.kind # "none" \/ sent > 0) =>
         /\ Len(sensor_ids) = NumSensors
         /\ \A n \in 1..NumSensors :
              sensor_ids[n] \in HeldSensorIds(sensors, Catalog[n].name)
         /\ Len(config) > 0
         /\ Len(devIds) = Len(config)
         /\ \A i \in 1..Len(config) :
              /\ devIds[i] \in HeldIds(devices, config[i])
              /\ Routed(config[i].topic)
              /\ requests[i] = config[i].topic
    /\ err \in {"transport", "no_devices", "subscribe"} =>
         /\ pc = "exit_err"
         /\ events = 0
         /\ last.kind = "none"
         /\ sent = 0
         /\ written = 0
    /\ pc \in {"setup_sensors", "setup_devices"} => (events = 0 /\ sent = 0)

C9_Witness ==
    /\ events = 1
    /\ Published
    /\ Len(config) = 2
    /\ Len(devIds) = 2
    /\ Len(sensor_ids) = NumSensors
    /\ sCreates >= 3
    /\ dCreates >= 2
    /\ sent > 0

(***************************************************************************)
(* C10  An empty device list is a fatal startup error: bootstrap ends with *)
(* an error, no subscribe request is issued and the dispatch loop is never *)
(* entered.                                                                *)
(***************************************************************************)
C10_EmptyConfigFatal ==
    Len(config) = 0 =>
      /\ requests = <<>>
      /\ topic_to_device = EmptyMap
      /\ pc \in {"setup_sensors", "exit_err"}
      /\ events = 0
      /\ last.kind = "none"
      /\ Len(sensor_ids) = NumSensors => (pc = "exit_err" /\ err = "no_devices")
      /\ pc = "exit_err" => err \in {"no_devices", "transport"}

C10_Witness ==
    /\ Len(config) = 0
    /\ pc = "exit_err"
    /\ err = "no_devices"
    /\ Len(sensor_ids) = NumSensors
    /\ requests = <<>>

(***************************************************************************)
(* Vocabulary of the resolver properties.                                  *)
(***************************************************************************)
Resolving == pc \in {"setup_sensors", "setup_devices"}

\* The calls the resolution in progress has made so far.
CallsSoFar == IF rstep = "fetch" THEN <<>> ELSE calls

CallFailed == err = "none" /\ err' = "transport"

\* What a resolution returns to its caller on success.
Returned == << sensor_ids, devIds >>

(***************************************************************************)
(* C11  A failure of the fetch call or of the create call of a resolution  *)
(* is returned to the caller at once: the failing call is the last call of *)
(* the resolution, nothing is resolved by it, main ends with the error,    *)
(* and no fetch or create follows (no retry).                              *)
(***************************************************************************)
C11_FailureEndsBoot ==
    err = "transport" =>
      /\ pc = "exit_err"
      /\ calls # <<>>
      /\ Len(sensor_ids) < NumSensors \/ Len(devIds) < Len(config)

C11_FailingCallIsLast ==
    /\ CallFailed =>
         /\ Resolving
         /\ pc' = "exit_err"
         /\ \E call \in {"fetch", "create"} : calls' = Append(CallsSoFar, call)
         /\ UNCHANGED << storeVars, Returned, topic_to_device, requests >>
    /\ err = "transport" =>
         UNCHANGED << calls, sCreates, dCreates, storeVars, Returned, pc, err >>

C11_FailurePropagates ==
    /\ []C11_FailureEndsBoot
    /\ [][C11_FailingCallIsLast]_vars

C11_Witness ==
    /\ pc = "exit_err"
    /\ err = "transport"
    /\ calls = << "fetch", "create" >>
    /\ Len(devIds) = 1
    /\ dCreates = 2
    /\ Len(devices) = Len(init.devices) + 1

\* A device resolution has just returned (no other call made since).
DeviceJustResolved ==
    /\ err = "none"
    /\ rstep = "fetch"
    /\ Len(devIds) >= 1

\* A sensor resolution has just returned.
SensorJustResolved ==
    /\ err = "none"
    /\ rstep = "fetch"
    /\ Len(devIds) = 0
    /\ Len(sensor_ids) >= 1
    /\ pc \in {"setup_sensors", "setup_devices"}

\* The store held no record for the i-th entry's key when its resolution
\* began (given that every earlier create was reflected at once).
DeviceAbsentAtStart(i) ==
    /\ HeldIds(init.devices, config[i]) = {}
    /\ \A j \in 1..(i - 1) :
         config[j].name # config[i].name \/ config[j].location # config[i].location

SensorAbsentAtStart(n) == HeldSensorIds(init.sensors, Catalog[n].name) = {}

FetchCreateFetch == << "fetch", "create", "fetch" >>

(***************************************************************************)
(* C12  Resolving a key the store does not hold, the store reflecting the  *)
(* create in the next fetch, makes exactly the calls fetch, create, fetch  *)
(* and returns the identifier the second fetch shows, which is the one the *)
(* store assigned and never the placeholder 0 of the create payload.       *)
(***************************************************************************)
C12_TraceOfMiss ==
    /\ (DeviceJustResolved /\ stale = 0 /\ DeviceAbsentAtStart(Len(devIds))) =>
         LET i == Len(devIds)
         IN  /\ calls = FetchCreateFetch
             /\ devIds[i] = devices[Len(devices)].id
             /\ HeldIds(devices, config[i]) = { devIds[i] }
             /\ devIds[i] # PlaceholderId
    /\ (SensorJustResolved /\ stale = 0 /\ SensorAbsentAtStart(Len(sensor_ids))) =>
         LET n == Len(sensor_ids)
         IN  /\ calls = FetchCreateFetch
             /\ sensor_ids[n] = sensors[Len(sensors)].id
             /\ HeldSensorIds(sensors, Catalog[n].name) = { sensor_ids[n] }
             /\ sensor_ids[n] # PlaceholderId

\* The three steps of a miss: the fetch returns nothing, the create returns
\* nothing (its response is not read for an id), the second fetch returns
\* what it shows.
C12_StepsOfMiss ==
    (Resolving /\ ~CallFailed /\ err = "none") =>
      LET shown == IF pc = "setup_devices"
                   THEN HeldIds(Visible(devices', dVisible'), config[di])
                   ELSE HeldSensorIds(Visible(sensors', sVisible'), Catalog[si].name)
      IN  /\ (rstep = "fetch" /\ shown = {}) =>
               /\ rstep' = "create"
               /\ calls' = << "fetch" >>
               /\ UNCHANGED << Returned, sCreates, dCreates, sensors, devices >>
          /\ rstep = "create" =>
               /\ rstep' = "refetch"
               /\ calls' = Append(calls, "create")
               /\ sCreates' + dCreates' = sCreates + dCreates + 1
               /\ UNCHANGED Returned
          /\ (rstep = "refetch" /\ shown # {}) =>
               /\ rstep' = "fetch"
               /\ calls' = Append(calls, "fetch")
               /\ UNCHANGED << sCreates, dCreates, sensors, devices >>
               /\ IF pc = "setup_devices"
                  THEN devIds' = Append(devIds, Oldest(shown))
                  ELSE sensor_ids' = Append(sensor_ids, Oldest(shown))
               /\ PlaceholderId \notin shown

C12_FetchCreateFetch ==
    /\ []C12_TraceOfMiss
    /\ [][C12_StepsOfMiss]_vars

C12_Witness ==
    /\ DeviceJustResolved
    /\ stale = 0
    /\ Len(devIds) = 1
    /\ DeviceAbsentAtStart(1)
    /\ init.devices # <<>>
    /\ calls = FetchCreateFetch
    /\ dCreates = 1
    /\ devIds[1] = FirstDeviceId + 1
    /\ Len(init.sensors) = 1
    /\ sCreates = 3

\* What the fetch of this step shows for the key being resolved.
Shown ==
    IF pc = "setup_devices"
    THEN HeldIds(Visible(devices', dVisible'), config[di])
    ELSE HeldSensorIds(Visible(sensors', sVisible'), Catalog[si].name)

(***************************************************************************)
(* C13  A resolution returns exactly on a fetch that shows the key.  While *)
(* no fetch shows it the resolution does not return: a fetch that misses   *)
(* is followed by a create and a create by a fetch, so the calls alternate *)
(* fetch, create, fetch, ... for as long as the store does not reflect a   *)
(* create.  When the store does reflect it (here: after at most MaxStale   *)
(* refusals) and no call fails, the resolution returns the identifier.     *)
(***************************************************************************)
C13_CallsAlternate ==
    /\ \A k \in 1..Len(calls) :
         calls[k] = IF k % 2 = 1 THEN "fetch" ELSE "create"
    /\ (DeviceJustResolved \/ SensorJustResolved) => Len(calls) % 2 = 1
    /\ (Resolving /\ rstep = "create")  => Len(calls) % 2 = 1
    /\ (Resolving /\ rstep = "refetch") => Len(calls) % 2 = 0

C13_ReturnsOnlyWhenShown ==
    (Resolving /\ err = "none" /\ ~CallFailed) =>
      /\ rstep \in {"fetch", "refetch"} =>
           /\ Shown # {} <=> Returned' # Returned
           /\ Shown # {} => rstep' = "fetch"
           /\ Shown = {} => (rstep' = "create" /\ pc' = pc)
      /\ rstep = "create" =>
           /\ rstep' = "refetch"
           /\ pc' = pc
           /\ UNCHANGED Returned

C13_EventuallyReturns ==
    /\ \A n \in 1..NumSensors :
         (pc = "setup_sensors" /\ si = n /\ Len(sensor_ids) < n)
           ~> (Len(sensor_ids) >= n \/ err = "transport")
    /\ \A i \in 1..MaxDevices :
         (pc = "setup_devices" /\ di = i /\ Len(devIds) < i)
           ~> (Len(devIds) >= i \/ err = "transport")

C13_TerminatesWhenReflected ==
    /\ []C13_CallsAlternate
    /\ [][C13_ReturnsOnlyWhenShown]_vars
    /\ C13_EventuallyReturns

\* A resolution that went twice round (the store did not reflect its first
\* create) and returned on its third fetch.
C13_Witness ==
    /\ DeviceJustResolved
    /\ Len(devIds) = 1
    /\ calls = << "fetch", "create", "fetch", "create", "fetch" >>
    /\ dCreates = 2
    /\ stale = MaxStale
    /\ Cardinality(HeldIds(devices, config[1])) = 2
    /\ devIds[1] = Oldest(HeldIds(devices, config[1]))

\* The identifiers setup_sensors returned.
CatalogIds == { sensor_ids[n] : n \in 1..Len(sensor_ids) }

(***************************************************************************)
(* C14  The sensor catalog is resolved once per process, whatever the      *)
(* number of configured devices: setup_sensors runs before the device loop *)
(* and is never entered again, each of the four names is resolved once,    *)
(* no sensor call is made afterwards, and every measurement write of every *)
(* device carries one of those four identifiers.                           *)
(***************************************************************************)
C14_FourIds ==
    /\ Len(sensor_ids) <= NumSensors
    /\ pc = "setup_sensors" => (Len(sensor_ids) < NumSensors /\ devIds = <<>>)
    /\ pc \in {"setup_devices", "handle_connection", "exit_ok"} =>
         Len(sensor_ids) = NumSensors
    /\ \A i \in 1..Len(lastWrites) : lastWrites[i].sensor \in CatalogIds

C14_NeverAgain ==
    /\ pc' = "setup_sensors" => pc = "setup_sensors"
    /\ pc # "setup_sensors" =>
         UNCHANGED << sensor_ids, si, sCreates, sensors, sVisible >>
    /\ sensor_ids' # sensor_ids =>
         /\ Len(sensor_ids') = Len(sensor_ids) + 1
         /\ SubSeq(sensor_ids', 1, Len(sensor_ids)) = sensor_ids

C14_CatalogOnce ==
    /\ []C14_FourIds
    /\ [][C14_NeverAgain]_vars

\* Two devices on two topics, a full reading forwarded for each.
C14_Witness ==
    /\ Len(config) = 2
    /\ config[1].topic # config[2].topic
    /\ Len(devIds) = 2
    /\ devIds[1] # devIds[2]
    /\ events = 2
    /\ sent = 8
    /\ Published
    /\ last.topic = config[2].topic
    /\ { lastWrites[i].sensor : i \in 1..Len(lastWrites) } = CatalogIds
    /\ \A i \in 1..Len(lastWrites) : lastWrites[i].device = devIds[2]
    /\ sCreates = NumSensors - Len(init.sensors)

\* The topics the configuration declares.
DeclaredTopics == { config[i].topic : i \in 1..Len(config) }

(***************************************************************************)
(* C15  Two configuration entries declaring one topic are both accepted    *)
(* (both resolved, both subscribed); after bootstrap the routing table has *)
(* one entry for the topic, holding the device id resolved for the later   *)
(* entry, and a message on the topic is written under that device only.    *)
(***************************************************************************)
C15_LaterEntryWins ==
    BootDone =>
      \A i, j \in 1..Len(config) :
        (i < j /\ config[i].topic = config[j].topic) =>
          LET topic == config[j].topic
              later == LastDeclaring(topic)
          IN  /\ Len(devIds) = Len(config)
              /\ requests[i] = topic
              /\ requests[j] = topic
              /\ DOMAIN topic_to_device = DeclaredTopics
              /\ topic_to_device[topic] = devIds[later]
              /\ devIds[later] \in HeldIds(devices, config[later])
              /\ (Published /\ last.topic = topic) =>
                    \A w \in 1..Len(lastWrites) :
                      lastWrites[w].device = devIds[later]

C15_Witness ==
    /\ Len(config) = 2
    /\ config[1].topic = config[2].topic
    /\ Len(devIds) = 2
    /\ devIds[1] # devIds[2]
    /\ DOMAIN topic_to_device = { config[1].topic }
    /\ Published
    /\ last.topic = config[1].topic
    /\ last.result = "ok"
    /\ Len(lastWrites) = 4
    /\ \A w \in 1..4 : lastWrites[w].device = devIds[2]

\* The writes the last reading calls for, in the order of store_measurement.
LastDue ==
    MeasurementWrites(last.entry, topic_to_device[last.topic], SensorIds(sensor_ids))

(***************************************************************************)
(* C16  No atomicity across the writes of one reading: when the k-th write *)
(* fails, the k-1 writes before it have been sent and are not undone, the  *)
(* writes after it are not attempted, and the failure of that write is the *)
(* result of forwarding (and of the loop).                                 *)
(***************************************************************************)
C16_PrefixSent ==
    (Published /\ last.result = "write") =>
      LET k == Len(lastWrites)
      IN  /\ k >= 1
          /\ k <= Len(LastDue)
          /\ lastWrites[k].outcome = "failed"
          /\ \A i \in 1..k :
               /\ i < k => lastWrites[i].outcome \in {"ok", "rejected"}
               /\ Measurement(lastWrites[i].device, lastWrites[i].sensor,
                              lastWrites[i].measurement) = LastDue[i]
          /\ err = "write"
          /\ pc = "exit_err"
          /\ sent >= k
          /\ written + rejected >= k - 1

C16_NotUndone ==
    /\ written' >= written
    /\ sent' >= sent
    /\ last'.result = "write" /\ events' = events + 1 =>
         /\ sent' = sent + Len(lastWrites')
         /\ written' + rejected' = written + rejected + Len(lastWrites') - 1
         /\ written' = written + CountOutcome(lastWrites', "ok")

C16_NoWriteAtomicity ==
    /\ []C16_PrefixSent
    /\ [][C16_NotUndone]_vars

\* The second of four writes fails after the first was recorded.
C16_Witness ==
    /\ Published
    /\ last.result = "write"
    /\ Len(LastDue) = 4
    /\ Len(lastWrites) = 2
    /\ lastWrites[1].outcome = "ok"
    /\ lastWrites[2].outcome = "failed"
    /\ sent = 2
    /\ written = 1
    /\ pc = "exit_err"

\* The last stream item was an event that is no inbound publish.
OtherEvent(item) == item.kind \in {"incoming", "outgoing"}

(***************************************************************************)
(* C17  An event that is not an inbound publish (an outgoing event, or an  *)
(* inbound packet such as an acknowledgment or a ping response) is only    *)
(* logged: it makes no call to the remote store, yields no error and does  *)
(* not end the dispatch loop.                                              *)
(***************************************************************************)
C17_LoggedState ==
    OtherEvent(last) =>
      /\ last.result = "ok"
      /\ lastWrites = <<>>
      /\ err = "none"
      /\ pc \in {"handle_connection", "exit_ok"}

C17_LoggedStep ==
    (OtherEvent(last') /\ events' = events + 1) =>
      /\ pc = "handle_connection"
      /\ pc' = "handle_connection"
      /\ UNCHANGED << storeVars, bootVars, sent, written, rejected >>

C17_OtherEventsLogged ==
    /\ []C17_LoggedState
    /\ [][C17_LoggedStep]_vars

\* A reading forwarded, then an inbound packet that is no publish, and the
\* loop still running.
C17_Witness ==
    /\ events = 2
    /\ last.kind = "incoming"
    /\ sent = 4
    /\ written = 4
    /\ pc = "handle_connection"
    /\ err = "none"

\* The errors handle_incomming returns for a publish event.
PublishErrors == {"utf8", "unrouted", "json", "write"}

Exited == pc \in {"exit_ok", "exit_err"}

(***************************************************************************)
(* C18  A failure while decoding or forwarding a publish event is returned *)
(* to the caller of the dispatch loop: the first failure (a failed write   *)
(* included) makes handle_connection return that error, the process exits  *)
(* with it and no later event is processed; without a failure the loop     *)
(* runs until the stream ends and returns success.                         *)
(***************************************************************************)
C18_FirstFailureReturned ==
    /\ (Published /\ last.result # "ok") =>
         /\ last.result \in PublishErrors
         /\ pc = "exit_err"
         /\ err = last.result
    /\ err \in PublishErrors =>
         /\ pc = "exit_err"
         /\ Published
         /\ last.result = err
    /\ pc = "handle_connection" => err = "none"
    /\ pc = "exit_ok" =>
         /\ err = "none"
         /\ last.result \in {"none", "ok"}

C18_NothingAfter ==
    /\ Exited => UNCHANGED vars
    /\ events' # events =>
         /\ pc = "handle_connection"
         /\ err = "none"
         /\ last.result \in {"none", "ok"}
    /\ (pc' = "exit_ok" /\ pc # "exit_ok") =>
         /\ pc = "handle_connection"
         /\ UNCHANGED << events, last, lastWrites, sent, written, rejected >>

C18_LoopReturnsFirstFailure ==
    /\ []C18_FirstFailureReturned
    /\ [][C18_NothingAfter]_vars

\* The first item fails on its second write, with room for more items.
C18_Witness ==
    /\ events = 1
    /\ events < MaxEvents
    /\ Published
    /\ last.result = "write"
    /\ Len(lastWrites) = 2
    /\ pc = "exit_err"
    /\ err = "write"

\* What the dispatcher is given by main, and the resolver's footprint.
DispatcherInputs == << topic_to_device, sensor_ids >>
ResolverFootprint ==
    << sensors, sVisible, devices, dVisible, stale, calls, sCreates, dCreates,
       devIds, requests, si, di, rstep >>

(***************************************************************************)
(* C19  The routing table and the sensor identifier set are read-only      *)
(* after bootstrap: no event the dispatcher processes (successful, failing *)
(* or non-data) adds, removes or changes a routing entry or a sensor id,   *)
(* and no resolver call (fetch or create of devices or sensors) is made    *)
(* once dispatch has started.                                              *)
(***************************************************************************)
C19_ReadOnlyStep ==
    /\ BootDone => UNCHANGED << DispatcherInputs, ResolverFootprint >>
    /\ events' # events => UNCHANGED << DispatcherInputs, ResolverFootprint >>
    /\ BootDone => BootDone'

C19_TableAsBuilt ==
    BootDone =>
      /\ DOMAIN topic_to_device = DeclaredTopics
      /\ \A t \in DeclaredTopics : topic_to_device[t] = devIds[LastDeclaring(t)]
      /\ Len(sensor_ids) = NumSensors
      /\ rstep = "fetch"

C19_ReadOnlyAfterBoot ==
    /\ []C19_TableAsBuilt
    /\ [][C19_ReadOnlyStep]_vars

\* A reading forwarded, then a publish event that fails, the table whole.
C19_Witness ==
    /\ events = 2
    /\ Published
    /\ last.result = "json"
    /\ sent = 4
    /\ Cardinality(DOMAIN topic_to_device) = 2
    /\ Len(sensor_ids) = NumSensors
    /\ pc = "exit_err"

(***************************************************************************)
(* C20  Every measurement write caused by a publish event on topic T       *)
(* carries the device id of the routing entry whose key is exactly T and   *)
(* one of the four bootstrap sensor ids; a message on one topic produces   *)
(* no write under another topic's device, and a topic that is no exact key *)
(* (a foreign topic, or a key with a trailing slash) resolves to no device *)
(* and produces no write.                                                  *)
(***************************************************************************)
C20_ExactTopicMatch ==
    Published =>
      /\ lastWrites # <<>> => Routed(last.topic)
      /\ \A w \in 1..Len(lastWrites) :
           /\ lastWrites[w].device = topic_to_device[last.topic]
           /\ lastWrites[w].sensor \in CatalogIds
           /\ \A t \in DOMAIN topic_to_device :
                (t # last.topic /\ topic_to_device[t] # topic_to_device[last.topic])
                => lastWrites[w].device # topic_to_device[t]
      /\ ~Routed(last.topic) =>
           /\ lastWrites = <<>>
           /\ last.result \in {"unrouted", "utf8"}
      /\ (last.result \in {"ok", "write", "json"}) => Routed(last.topic)

\* Two devices on two topics: a reading forwarded under the second topic's
\* device, then a reading on the first topic with a trailing slash.
C20_Witness ==
    /\ Len(config) = 2
    /\ Cardinality(DOMAIN topic_to_device) = 2
    /\ topic_to_device["tele/stue/SENSOR"] # topic_to_device["tele/bad/SENSOR"]
    /\ events = 2
    /\ sent = 4
    /\ written = 4
    /\ Published
    /\ last.topic = NearTopic
    /\ WellFormed(last.payload)
    /\ HasProbe(last.payload)
    /\ last.result = "unrouted"
    /\ lastWrites = <<>>

ParseCall == pc = "parse_topic_configs"
Parsed == pc = "parsed"

EntryFields == {"topic", "device_name", "device_location"}

\* Some table of the file lacks a member.
LacksField(content) ==
    \E i \in 1..Len(content.topics) : \E f \in EntryFields :
      content.topics[i][f].kind = "missing"

\* Some table of the file has an empty-string member.
HasEmptyField(content) ==
    \E i \in 1..Len(content.topics) : \E f \in EntryFields :
      content.topics[i][f] = [kind |-> "string", text |-> ""]

(***************************************************************************)
(* C21  As claimed: loading a configuration in which an entry lacks a      *)
(* field, or has an empty-string field such as topic = "", fails with a    *)
(* configuration error instead of yielding that entry.                     *)
(***************************************************************************)
C21_NonEmptyRequired ==
    [][ (ParseCall /\ (LacksField(file) \/ HasEmptyField(file)))
        => (pc' = "parse_err" /\ err' # "none") ]_vars

(***************************************************************************)
(* C21  As amended: loading requires each entry to have all three fields   *)
(* present as strings.  A file in which an entry lacks a field (or has one *)
(* of another type) fails with a configuration error and yields nothing;   *)
(* an empty-string field such as topic = "" is accepted, and the entry is  *)
(* yielded with that empty string.                                         *)
(***************************************************************************)
C21_PresenceStep ==
    ParseCall =>
      LET wellTyped == \A i \in 1..Len(file.topics) : \A f \in EntryFields :
                         file.topics[i][f].kind = "string"
          loads == file.readable /\ file.toml /\ file.has_topics /\ wellTyped
      IN  /\ LacksField(file) => (pc' = "parse_err" /\ err' # "none" /\ config' = <<>>)
          /\ loads <=> pc' = "parsed"
          /\ ~loads <=> pc' = "parse_err"
          /\ loads =>
               /\ err' = "none"
               /\ Len(config') = Len(file.topics)
               /\ \A i \in 1..Len(file.topics) : \A f \in EntryFields :
                    config'[i][f] = file.topics[i][f].text

C21_PresenceRequired == [][C21_PresenceStep]_vars

\* A file whose only entry has topic = "" was loaded, the entry yielded.
C21_Witness ==
    /\ Parsed
    /\ err = "none"
    /\ HasEmptyField(file)
    /\ Len(config) = 1
    /\ config[1].topic = ""
    /\ config[1].device_name = "x"
    /\ config[1].device_location = "x"

FetchedDevices == Visible(devices', dVisible')
FetchedSensors == Visible(sensors', sVisible')

FetchStep(phase) ==
    /\ pc = phase
    /\ rstep \in {"fetch", "refetch"}
    /\ err = "none"
    /\ ~CallFailed

(***************************************************************************)
(* C23  Resolver matching uses the uniqueness key only.  A device record   *)
(* matches iff both its name and its location equal the requested ones: a  *)
(* record of the same name at another location is a miss and is followed   *)
(* by a create.  A sensor record matches iff its name equals the requested *)
(* name, whatever its unit: the same name under another unit is a hit, no  *)
(* create is issued and the record keeps its unit.                         *)
(***************************************************************************)
C23_MatchStep ==
    /\ FetchStep("setup_devices") =>
         LET list == FetchedDevices
             both == { i \in 1..Len(list) :
                         /\ list[i].name = config[di].name
                         /\ list[i].location = config[di].location }
         IN  /\ both # {} =>
                  /\ \E i \in both : devIds' = Append(devIds, list[i].id)
                  /\ rstep' = "fetch"
             /\ both = {} =>
                  /\ devIds' = devIds
                  /\ rstep' = "create"
    /\ FetchStep("setup_sensors") =>
         LET list == FetchedSensors
             named == { i \in 1..Len(list) : list[i].name = Catalog[si].name }
         IN  /\ named # {} =>
                  /\ \E i \in named : sensor_ids' = Append(sensor_ids, list[i].id)
                  /\ rstep' = "fetch"
             /\ named = {} =>
                  /\ sensor_ids' = sensor_ids
                  /\ rstep' = "create"
    /\ (Resolving /\ rstep = "create" /\ ~CallFailed) =>
         /\ Len(devices') + Len(sensors') <= Len(devices) + Len(sensors) + 1
         /\ \A i \in 1..Len(sensors) : sensors'[i] = sensors[i]
         /\ \A i \in 1..Len(devices) : devices'[i] = devices[i]

C23_KeyOnly ==
    (BootOk /\ stale = 0) =>
      /\ sCreates = NumSensors - Len(init.sensors)
      /\ \A k \in 1..Len(init.sensors) :
           /\ sensors[k] = init.sensors[k]
           /\ \E n \in 1..NumSensors :
                Catalog[n].name = sensors[k].name /\ sensor_ids[n] = sensors[k].id
      /\ \A i \in 1..Len(config) :
           (HeldIds(init.devices, config[i]) = {}) =>
             /\ dCreates >= 1
             /\ \A k \in 1..Len(init.devices) : devIds[i] # init.devices[k].id

C23_UniquenessKeyMatch ==
    /\ []C23_KeyOnly
    /\ [][C23_MatchStep]_vars

\* The store held the device's name at another location and a catalog
\* sensor under another unit: one device-create, no create for the sensor.
C23_Witness ==
    /\ BootOk
    /\ stale = 0
    /\ Len(config) = 1
    /\ Len(init.devices) = 1
    /\ init.devices[1].name = config[1].name
    /\ init.devices[1].location # config[1].location
    /\ dCreates = 1
    /\ devIds[1] = FirstDeviceId + 1
    /\ Len(init.sensors) = 1
    /\ init.sensors[1].unit = OtherUnit
    /\ sensors[1].unit = OtherUnit
    /\ sCreates = 3
    /\ init.sensors[1].id \in CatalogIds

\* The device keys the configuration names, and those the store did not
\* hold before bootstrap.
ConfigKeys == { << config[i].name, config[i].location >> : i \in 1..Len(config) }
InitKeys ==
    { << init.devices[k].name, init.devices[k].location >> : k \in 1..Len(init.devices) }
InitNames == { init.sensors[k].name : k \in 1..Len(init.sensors) }
CatalogNames == { Catalog[n].name : n \in 1..NumSensors }

(***************************************************************************)
(* C24  Across a whole bootstrap against a store that reflects each create *)
(* in the next fetch, at most one create is issued per distinct device key *)
(* (name, location) and per sensor name; after a successful bootstrap two  *)
(* configuration entries with the same (name, location) and different      *)
(* topics have caused one device-create and both topics are routed to the  *)
(* same device identifier.                                                 *)
(***************************************************************************)
C24_OneCreatePerKey ==
    stale = 0 =>
      /\ \A i \in 1..Len(config) :
           \/ HeldIds(devices, config[i]) = HeldIds(init.devices, config[i])
           \/ /\ HeldIds(init.devices, config[i]) = {}
              /\ Cardinality(HeldIds(devices, config[i])) = 1
      /\ \A n \in 1..NumSensors :
           \/ HeldSensorIds(sensors, Catalog[n].name)
                = HeldSensorIds(init.sensors, Catalog[n].name)
           \/ /\ HeldSensorIds(init.sensors, Catalog[n].name) = {}
              /\ Cardinality(HeldSensorIds(sensors, Catalog[n].name)) = 1
      /\ dCreates <= Cardinality(ConfigKeys \ InitKeys)
      /\ sCreates <= Cardinality(CatalogNames \ InitNames)
      /\ BootOk =>
           /\ dCreates = Cardinality(ConfigKeys \ InitKeys)
           /\ sCreates = Cardinality(CatalogNames \ InitNames)
           /\ \A i, j \in 1..Len(config) :
                ( /\ config[i].name = config[j].name
                  /\ config[i].location = config[j].location )
                => /\ devIds[i] = devIds[j]
                   /\ ( /\ LastDeclaring(config[i].topic) = i
                        /\ LastDeclaring(config[j].topic) = j )
                      => topic_to_device[config[i].topic]
                           = topic_to_device[config[j].topic]

\* One device under two topics, unknown to the store before.
C24_Witness ==
    /\ BootOk
    /\ stale = 0
    /\ Len(config) = 2
    /\ config[1].name = config[2].name
    /\ config[1].location = config[2].location
    /\ config[1].topic # config[2].topic
    /\ HeldIds(init.devices, config[1]) = {}
    /\ dCreates = 1
    /\ Cardinality(DOMAIN topic_to_device) = 2
    /\ topic_to_device[config[1].topic] = topic_to_device[config[2].topic]

\* Fetches and creates of the resolution in progress (or just returned).
Fetches == Cardinality({ k \in 1..Len(calls) : calls[k] = "fetch" })
Creates == Cardinality({ k \in 1..Len(calls) : calls[k] = "create" })

(***************************************************************************)
(* C25  Inside one resolution every fetch that misses is followed by one   *)
(* more create request for the same key: a resolution that returns on its  *)
(* (k+1)-th fetch has issued k creates (so a store that shows a record     *)
(* late ends up with duplicates), and a create answered with an error      *)
(* status, without a transport failure, is treated like a successful one   *)
(* and followed by another fetch.                                          *)
(***************************************************************************)
C25_CreatePerMiss ==
    /\ (DeviceJustResolved \/ SensorJustResolved) => Fetches = Creates + 1
    /\ (Resolving /\ rstep = "create")  => Fetches = Creates + 1
    /\ (Resolving /\ rstep = "refetch") => (Fetches = Creates /\ Creates >= 1)
    /\ DeviceJustResolved =>
         Cardinality(HeldIds(devices, config[Len(devIds)])) <= 1 + dCreates

C25_CreateStep ==
    /\ (FetchStep("setup_devices") \/ FetchStep("setup_sensors")) =>
         (Shown = {} =>
            /\ rstep' = "create"
            /\ pc' = pc
            /\ calls' = Append(CallsSoFar, "fetch"))
    /\ (Resolving /\ rstep = "create" /\ ~CallFailed) =>
         /\ rstep' = "refetch"
         /\ pc' = pc
         /\ err' = "none"
         /\ calls' = Append(calls, "create")
         /\ sCreates' + dCreates' = sCreates + dCreates + 1
         /\ pc = "setup_devices" =>
              \/ devices' = devices
              \/ /\ Len(devices') = Len(devices) + 1
                 /\ devices'[Len(devices')].name = config[di].name
                 /\ devices'[Len(devices')].location = config[di].location
         /\ pc = "setup_sensors" =>
              \/ sensors' = sensors
              \/ /\ Len(sensors') = Len(sensors) + 1
                 /\ sensors'[Len(sensors')].name = Catalog[si].name

C25_DuplicateCreates ==
    /\ []C25_CreatePerMiss
    /\ [][C25_CreateStep]_vars

\* The first create answered with an error status (no record stored), the
\* second accepted: three fetches, two creates, one record.
C25_Witness ==
    /\ DeviceJustResolved
    /\ Len(devIds) = 1
    /\ Fetches = 3
    /\ Creates = 2
    /\ dCreates = 2
    /\ Len(devices) = Len(init.devices) + 1
    /\ Cardinality(HeldIds(devices, config[1])) = 1
    /\ stale = 1

SubscribeBlocked == pc = "subscribe_blocked"

(***************************************************************************)
(* C26  Bootstrap queues one subscribe request per configuration entry on  *)
(* the client's request queue (capacity 10) while nothing drains it, the   *)
(* connection being polled first by handle_connection: the dispatch loop   *)
(* is reached only with at most 10 entries; with more, the 11th subscribe  *)
(* blocks for ever and no message is ever dispatched.                      *)
(***************************************************************************)
C26_QueueState ==
    /\ Len(requests) <= RequestQueueCap
    /\ events = 0 => Len(requests) = (IF SubscribeBlocked THEN Len(devIds) - 1
                                      ELSE Len(devIds))
    /\ \A i \in 1..Len(requests) : requests[i] = config[i].topic
    /\ BootDone =>
         /\ Len(config) <= RequestQueueCap
         /\ Len(requests) = Len(config)
    /\ Len(config) > RequestQueueCap =>
         /\ events = 0
         /\ sent = 0
         /\ last.kind = "none"
         /\ pc \in {"setup_sensors", "setup_devices", "subscribe_blocked", "exit_err"}
         /\ pc = "exit_err" => err = "transport"
    /\ SubscribeBlocked =>
         /\ Len(config) > RequestQueueCap
         /\ Len(requests) = RequestQueueCap
         /\ di = RequestQueueCap + 1
         /\ Len(devIds) = RequestQueueCap + 1

C26_BlockedStep ==
    /\ SubscribeBlocked => UNCHANGED vars
    /\ requests' # requests =>
         /\ pc = "setup_devices"
         /\ Len(requests') = Len(requests) + 1

C26_QueueCapacity ==
    /\ []C26_QueueState
    /\ [][C26_BlockedStep]_vars

\* Eleven entries: ten subscribes queued, the eleventh blocked.
C26_Witness ==
    /\ SubscribeBlocked
    /\ Len(config) = RequestQueueCap + 1
    /\ Len(requests) = RequestQueueCap
    /\ Len(devIds) = RequestQueueCap + 1
    /\ Cardinality(DOMAIN topic_to_device) = 2
    /\ events = 0
    /\ err = "none"

\* The attempted writes of the last reading, without their outcomes.
LastAttempts ==
    [i \in 1..Len(lastWrites) |->
       << lastWrites[i].device, lastWrites[i].sensor, lastWrites[i].measurement >>]

\* The writes a reading on a routed topic calls for, in the claimed order.
ClaimedOrder(d, v) ==
    (IF HasCombined(v)
     THEN << << d, sensor_ids[2], v.dht.value.temperature >>,
             << d, sensor_ids[3], v.dht.value.humidity >>,
             << d, sensor_ids[4], v.dht.value.dew_point >> >>
     ELSE << >>)
    \o (IF HasProbe(v)
        THEN << << d, sensor_ids[1], v.ds.value.temperature >> >>
        ELSE << >>)

(***************************************************************************)
(* C27  The writes of one reading are issued in the order combined         *)
(* temperature, combined humidity, combined dew point, probe temperature:  *)
(* the attempted writes are a prefix of that sequence, ending with the     *)
(* failed write if one failed. A failed combined write therefore leaves    *)
(* the probe write unattempted, and a failed probe write comes after the   *)
(* three combined writes of the reading were sent.                         *)
(***************************************************************************)
C27_WriteOrder ==
    (Published /\ last.result \in {"ok", "write"}) =>
      LET order == ClaimedOrder(topic_to_device[last.topic], last.payload)
          k == Len(lastWrites)
      IN  /\ k <= Len(order)
          /\ LastAttempts = SubSeq(order, 1, k)
          /\ last.result = "ok" => k = Len(order)
          /\ last.result = "write" =>
               /\ k >= 1
               /\ lastWrites[k].outcome = "failed"
               /\ \A i \in 1..(k - 1) : lastWrites[i].outcome # "failed"
               /\ (HasCombined(last.payload) /\ k <= 3) =>
                    \A i \in 1..k : lastWrites[i].sensor # sensor_ids[1]
               /\ (HasProbe(last.payload) /\ k = Len(order)) =>
                    /\ lastWrites[k].sensor = sensor_ids[1]
                    /\ HasCombined(last.payload) =>
                         /\ k = 4
                         /\ << lastWrites[1].sensor, lastWrites[2].sensor,
                               lastWrites[3].sensor >>
                             = << sensor_ids[2], sensor_ids[3], sensor_ids[4] >>

\* The probe write of a full reading fails as the fourth write.
C27_Witness ==
    /\ Published
    /\ last.result = "write"
    /\ HasProbe(last.payload)
    /\ HasCombined(last.payload)
    /\ Len(lastWrites) = 4
    /\ lastWrites[4].outcome = "failed"
    /\ lastWrites[4].sensor = sensor_ids[1]
    /\ lastWrites[1].sensor = sensor_ids[2]
    /\ lastWrites[1].outcome = "ok"
    /\ lastWrites[4].measurement # lastWrites[1].measurement

\* The writes of the last reading the store answered with an error status.
LastRejected == { i \in 1..Len(lastWrites) : lastWrites[i].outcome = "rejected" }

(***************************************************************************)
(* C28  Only a transport failure is a failed measurement write. A write    *)
(* the store answers with an error status counts as sent: the remaining    *)
(* writes of the reading follow it, forwarding returns success unless a    *)
(* later send fails in transport, and the dispatch loop goes on, although  *)
(* the measurement was not recorded.                                       *)
(***************************************************************************)
C28_RejectedState ==
    (Published /\ LastRejected # {}) =>
      LET order == ClaimedOrder(topic_to_device[last.topic], last.payload)
          k == Len(lastWrites)
      IN  /\ last.result \in {"ok", "write"}
          /\ last.result = "write" <=> lastWrites[k].outcome = "failed"
          /\ last.result = "ok" =>
               /\ k = Len(order)
               /\ pc \in {"handle_connection", "exit_ok"}
               /\ err = "none"
          /\ \A i \in LastRejected : i < Len(order) => k > i
          /\ sent >= k
          /\ rejected >= Cardinality(LastRejected)

C28_RejectedStep ==
    events' = events + 1 =>
      LET n == Len(lastWrites')
          ok == { i \in 1..n : lastWrites'[i].outcome = "ok" }
          bad == { i \in 1..n : lastWrites'[i].outcome = "rejected" }
          lost == { i \in 1..n : lastWrites'[i].outcome = "failed" }
      IN  /\ sent' = sent + n
          /\ written' = written + Cardinality(ok)
          /\ rejected' = rejected + Cardinality(bad)
          /\ (last'.kind = "publish" /\ last'.result = "write") <=> lost # {}
          /\ (bad # {} /\ lost = {}) =>
               /\ last'.result = "ok"
               /\ pc' = "handle_connection"
               /\ err' = "none"

C28_ErrorStatusIsSuccess ==
    /\ []C28_RejectedState
    /\ [][C28_RejectedStep]_vars

\* The first of four writes is answered with an error status; the other
\* three follow, forwarding succeeds and the loop is ready for the next
\* item.
C28_Witness ==
    /\ Published
    /\ last.result = "ok"
    /\ Len(lastWrites) = 4
    /\ LastRejected = {1}
    /\ sent = 4
    /\ written = 3
    /\ rejected = 1
    /\ pc = "handle_connection"
    /\ err = "none"

\* The catalog names the store lacks at start.
AbsentNames == CatalogNames \ InitNames

NoDevicesError == pc = "exit_err" /\ err = "no_devices"

(***************************************************************************)
(* C29  The empty check follows the sensor resolution. With an empty       *)
(* device list the bootstrap still resolves the four catalog sensors,      *)
(* fetching for each and creating each one the store lacks (one create     *)
(* each, at most four, against a store that reflects creates), and only    *)
(* then fails with the no-devices error: the failed startup leaves the     *)
(* created sensor records in the store.                                    *)
(***************************************************************************)
C29_AfterSensors ==
    /\ NoDevicesError =>
         /\ Len(config) = 0
         /\ Len(sensor_ids) = NumSensors
         /\ \A n \in 1..NumSensors :
              sensor_ids[n] \in HeldSensorIds(sensors, Catalog[n].name)
         /\ sCreates >= Cardinality(AbsentNames)
         /\ Len(sensors) >= Len(init.sensors) + Cardinality(AbsentNames)
         /\ SubSeq(sensors, 1, Len(init.sensors)) = init.sensors
         /\ stale = 0 =>
              /\ sCreates = Cardinality(AbsentNames)
              /\ sCreates <= NumSensors
              /\ Len(sensors) = Len(init.sensors) + sCreates
         /\ devices = init.devices
         /\ dCreates = 0
         /\ devIds = <<>>
         /\ requests = <<>>
    /\ (Len(config) = 0 /\ Exited /\ ~NoDevicesError) =>
         /\ err = "transport"
         /\ Len(sensor_ids) < NumSensors

C29_CheckStep ==
    (NoDevicesError' /\ ~NoDevicesError) =>
      /\ pc = "setup_sensors"
      /\ si = NumSensors
      /\ rstep \in {"fetch", "refetch"}
      /\ Len(sensor_ids) = NumSensors - 1
      /\ calls'[Len(calls')] = "fetch"

C29_EmptyCheckAfterSensors ==
    /\ []C29_AfterSensors
    /\ [][C29_CheckStep]_vars

\* An empty device list and an empty store: four sensor records are left
\* behind by the startup that fails.
C29_Witness ==
    /\ NoDevicesError
    /\ Len(config) = 0
    /\ init.sensors = <<>>
    /\ sCreates = NumSensors
    /\ Len(sensors) = NumSensors
    /\ stale = 0

ConnectionErrorItem(item) == item.kind = "conn_err"

(***************************************************************************)
(* C30  An error item of the transport stream is logged and skipped: it    *)
(* leaves the dispatch loop running, makes no call to the store and        *)
(* changes nothing the dispatcher reads, and the item that follows it is   *)
(* handled like any other. The loop ends only when the stream ends or a    *)
(* publish event fails.                                                    *)
(***************************************************************************)
C30_Skipped ==
    ConnectionErrorItem(last) =>
      /\ last.result = "ok"
      /\ lastWrites = <<>>
      /\ err = "none"
      /\ pc \in {"handle_connection", "exit_ok"}
      /\ (pc = "handle_connection" /\ events < MaxEvents) =>
           ENABLED IncomingPublish(MaxEvents)

C30_SkipStep ==
    /\ (events' = events + 1 /\ ConnectionErrorItem(last')) =>
         /\ pc = "handle_connection"
         /\ pc' = "handle_connection"
         /\ err' = "none"
         /\ UNCHANGED << sent, written, rejected >>
         /\ UNCHANGED << DispatcherInputs, ResolverFootprint >>
    /\ (events' = events + 1 /\ ConnectionErrorItem(last) /\ Published') =>
         LET order == ClaimedOrder(topic_to_device[last'.topic], last'.payload)
         IN  /\ (Routed(last'.topic) /\ WellFormed(last'.payload)) =>
                  /\ last'.result \in {"ok", "write"}
                  /\ LastAttempts' = SubSeq(order, 1, Len(lastWrites'))
                  /\ last'.result = "ok" => Len(lastWrites') = Len(order)
             /\ sent' = sent + Len(lastWrites')
    /\ (pc = "handle_connection" /\ pc' # "handle_connection") =>
         \/ /\ pc' = "exit_ok"
            /\ events' = events
            /\ err' = "none"
         \/ /\ pc' = "exit_err"
            /\ events' = events + 1
            /\ Published'
            /\ last'.result # "ok"
            /\ err' = last'.result

C30_ConnectionErrorSkipped ==
    /\ []C30_Skipped
    /\ [][C30_SkipStep]_vars

\* A connection error as the first item: nothing sent, the loop running.
C30_Witness ==
    /\ ConnectionErrorItem(last)
    /\ events = 1
    /\ pc = "handle_connection"
    /\ err = "none"
    /\ sent = 0
    /\ lastWrites = <<>>
=============================================================================
